---- MODULE Spec2Model ----
(***************************************************************************)
(* PostgresDiffInspector: the schema comparison of DatabaseComparator and  *)
(* the data comparison of DataComparator, as state machines.               *)
(*                                                                         *)
(* SpecSchema : compareSchemas / compareTable on two schema snapshots.     *)
(* SpecData   : compareData with compareTableData, compareDumpTableData    *)
(*              and getTableDataWithPagination, against two sides that     *)
(*              are live connections or parsed dumps.                      *)
(***************************************************************************)
EXTENDS Integers, Sequences, FiniteSets, TLC

VARIABLES
  sourceSchema,   \* snapshot passed as sourceSchema
  targetSchema,   \* snapshot passed as targetSchema
  comparison,     \* what compareSchemas returned (or that it threw)
  tableDiff,      \* what a direct compareTable call returned (or that it threw)
  schemaPc        \* "ready", "compared", "tableCompared"

schemaVars == <<sourceSchema, targetSchema, comparison, tableDiff, schemaPc>>

(***************************************************************************)
(* DataComparator.  Two class definitions exist: the one of                *)
(* src/dataComparator.js ("simple": one SELECT per side, the Client built  *)
(* in place) and the one of databaseComparator.js:1570 ("paginated":       *)
(* createClient, getTableDataWithPagination, the timeout restart).         *)
(* The connection handling of compareDatabases is the same machine, for    *)
(* the two DatabaseComparator definitions of databaseComparator.js.        *)
(***************************************************************************)
VARIABLES
  variant,        \* the class definition in use
  content,        \* [cloud, edge] -> the tables each side holds (environment)
  calls,          \* the options of the invocations the caller makes, in order
  clients,        \* every Client created: [side, run, connected, ended]
  cloudClient,    \* this.cloudClient: index into clients, 0 = undefined
  edgeClient,     \* this.edgeClient
  run,            \* number of compareData invocations started
  options,        \* options of the current invocation
  pc,             \* position inside compareData
  outcome,        \* "none", "returned" or "threw" for the current invocation
  commonTables,   \* compareData: commonTables
  tableIdx,       \* index of the table the loop is at
  tableResults,   \* results.tableResults
  insertQueries,  \* results.insertQueries
  batchOption,    \* options.batchSize as seen by the current compareTableData call
  pkColumns,      \* compareTableData: pkColumns
  cloudRows,      \* compareTableData: cloudRows
  edgeRows,       \* compareTableData: edgeRows
  totalCloud,     \* result.totalCloudRecords of the current call
  pageSide,       \* side whose rows getTableDataWithPagination is fetching
  offset,         \* getTableDataWithPagination: offset
  allRows,        \* getTableDataWithPagination: allRows
  retryCount,     \* getTableDataWithPagination: retryCount
  queryLog,       \* queries issued by the current getTableDataWithPagination call
  tableErrors,    \* per common table: the error that ended its comparison, "" if none
  event,          \* what the last step did
  failures        \* failures the environment has injected

envVars    == <<variant, content, calls>>
clientVars == <<clients, cloudClient, edgeClient>>
runVars    == <<run, options, outcome>>
loopVars   == <<commonTables, tableIdx, tableResults, insertQueries, tableErrors>>
tableVars  == <<batchOption, pkColumns, cloudRows, edgeRows, totalCloud>>
pageVars   == <<pageSide, offset, allRows, retryCount, queryLog>>

dataVars ==
  <<envVars, clientVars, runVars, loopVars, tableVars, pageVars, pc, event, failures>>

(***************************************************************************)
(* The execution of generated SQL: executeInsertQueries (dataComparator.js *)
(* and databaseComparator.js:2239) and executeCreateTableQueries (both     *)
(* definitions of databaseComparator.js).                                  *)
(***************************************************************************)
VARIABLES
  execOp,         \* the function definition that is running
  execQueries,    \* the query list passed in
  execUrls,       \* [cloud, edge] -> whether the URL argument is truthy
  execDryRun,     \* options.dryRun
  execPc,         \* "ready", "loop", "finally", "done"
  execSide,       \* database the loop is working on
  execIdx,        \* index into that side's queries
  execResults,    \* the results object
  execIssued,     \* every client.query() call made: [side, tableName]
  execClients,    \* every Client created: [side, connected, ended]
  execOutcome,    \* "none", "returned" or "threw"
  execFailures    \* failures the environment has injected

execVars ==
  <<execOp, execQueries, execUrls, execDryRun, execPc, execSide, execIdx,
    execResults, execIssued, execClients, execOutcome, execFailures>>

(***************************************************************************)
(* DumpParser (dumpParser.js): the pass of parseContent over the lines of  *)
(* a dump.  Texts are sequences of one-character strings.                  *)
(***************************************************************************)
VARIABLES
  dumpLines,        \* parseContent: lines
  lineIdx,          \* index of the line the loop is at (from 1)
  dumpTables,       \* this.tables: the entries of the Map in insertion order
  currentTable,     \* parseContent: currentTable, <<>> for null
  isInsertSection,  \* parseContent: isInsertSection
  insertBuffer,     \* parseContent: insertBuffer
  parsePc           \* "idle", "parsing", "parsed"

parseVars ==
  <<dumpLines, lineIdx, dumpTables, currentTable, isInsertSection, insertBuffer, parsePc>>

(***************************************************************************)
(* formatValue and generateInsertQueries of DataComparator, applied to     *)
(* values and records whose texts are kept character by character, and the *)
(* generated statements read back by DumpParser.parseInsertStatement.      *)
(***************************************************************************)
VARIABLES
  sqlValue,       \* the argument of formatValue
  sqlLiteral,     \* what formatValue returned
  sqlInput,       \* tableName and tableResult passed to generateInsertQueries
  sqlQueries,     \* what generateInsertQueries returned
  sqlPc           \* "idle", "ready", "formatted", "generated", "parsedBack"

sqlVars == <<sqlValue, sqlLiteral, sqlInput, sqlQueries, sqlPc>>

(***************************************************************************)
(* The table allow-list of compareDatabases and of the paginated           *)
(* compareData (databaseComparator.js): how options.tables becomes         *)
(* tableFilter and which table names reach the comparison.                 *)
(***************************************************************************)
VARIABLES
  filterOp,       \* "compareDatabases" or "compareData"
  filterSchema,   \* the schema argument
  filterEntries,  \* options.tables
  filterKinds,    \* [cloud, edge] -> "live" or "dump"
  filterContent,  \* [cloud, edge] -> the tables of the schema on that side
  tableFilter,    \* the local tableFilter: [isNull, names]
  filterListing,  \* [cloud, edge] -> the table names obtained from that side
  filterResult,   \* the name lists of the comparison
  filterPc        \* "idle", "ready", "cloud", "edge", "compare", "done"

filterVars ==
  <<filterOp, filterSchema, filterEntries, filterKinds, filterContent, tableFilter,
    filterListing, filterResult, filterPc>>

(***************************************************************************)
(* DatabaseComparator.createClient (databaseComparator.js:17).             *)
(***************************************************************************)
VARIABLES
  connUrl,        \* the url argument
  connOptions,    \* options.timeout and options.queryTimeout, 0 when not given
  connClients,    \* every Client created: [config, connected, ended]
  connReturned,   \* index of the client returned, 0 when none
  connOutcome,    \* "none", "returned" or "threw"
  connPc          \* "idle", "first", "fallback", "done"

connVars == <<connUrl, connOptions, connClients, connReturned, connOutcome, connPc>>

vars == <<schemaVars, dataVars, execVars, parseVars, sqlVars, filterVars, connVars>>

\* what each model leaves alone
schemaRest == <<dataVars, execVars, parseVars, sqlVars, filterVars, connVars>>
dataRest   == <<schemaVars, execVars, parseVars, sqlVars, filterVars, connVars>>
execRest   == <<schemaVars, dataVars, parseVars, sqlVars, filterVars, connVars>>
parseRest  == <<schemaVars, dataVars, execVars, sqlVars, filterVars, connVars>>
sqlRest    == <<schemaVars, dataVars, execVars, filterVars, connVars>>
filterRest == <<schemaVars, dataVars, execVars, parseVars, sqlVars, connVars>>
connRest   == <<schemaVars, dataVars, execVars, parseVars, sqlVars, filterVars>>

Counters == [success |-> 0, failed |-> 0, errors |-> <<>>]

\* nothing is being executed
ExecIdle ==
  /\ execOp = "none" /\ execQueries = <<>>
  /\ execUrls = [cloud |-> FALSE, edge |-> FALSE]
  /\ execDryRun = FALSE
  /\ execPc = "idle" /\ execSide = "none" /\ execIdx = 0
  /\ execResults = [cloud |-> Counters, edge |-> Counters, target |-> Counters]
  /\ execIssued = <<>> /\ execClients = <<>>
  /\ execOutcome = "none" /\ execFailures = 0

\* a parser just constructed: this.tables = new Map()
ParserConstructed ==
  /\ dumpTables = <<>> /\ currentTable = <<>>
  /\ isInsertSection = FALSE /\ insertBuffer = <<>>

\* no dump is being parsed
ParseIdle ==
  /\ ParserConstructed
  /\ dumpLines = <<>> /\ lineIdx = 1 /\ parsePc = "idle"

NoTableResult ==
  [tableName |-> <<>>, missingInEdge |-> <<>>, missingInCloud |-> <<>>]

\* nothing is being formatted
SqlIdle ==
  /\ sqlValue = [type |-> "undefined", text |-> <<>>, fields |-> <<>>]
  /\ sqlLiteral = <<>>
  /\ sqlInput = NoTableResult
  /\ sqlQueries = <<>>
  /\ sqlPc = "idle"

NoFilterResult == [commonTables |-> <<>>, onlyInSource |-> <<>>, onlyInTarget |-> <<>>]

\* no allow-list is being applied
FilterIdle ==
  /\ filterOp = "none" /\ filterSchema = <<>> /\ filterEntries = <<>>
  /\ filterKinds = [cloud |-> "live", edge |-> "live"]
  /\ filterContent = [cloud |-> <<>>, edge |-> <<>>]
  /\ tableFilter = [isNull |-> TRUE, names |-> <<>>]
  /\ filterListing = [cloud |-> <<>>, edge |-> <<>>]
  /\ filterResult = NoFilterResult
  /\ filterPc = "idle"

\* no client is being created
ConnIdle ==
  /\ connUrl = <<>> /\ connOptions = [timeout |-> 0, queryTimeout |-> 0]
  /\ connClients = <<>> /\ connReturned = 0
  /\ connOutcome = "none" /\ connPc = "idle"

Event(kind, error, batch) == [kind |-> kind, error |-> error, batch |-> batch]

NoOptions == [cloudDump |-> FALSE, edgeDump |-> FALSE, batchSize |-> 0, maxRetries |-> 0]

\* a comparator just constructed: no client, nothing compared
Constructed ==
  /\ clients = <<>> /\ cloudClient = 0 /\ edgeClient = 0
  /\ run = 0 /\ options = NoOptions /\ outcome = "none"
  /\ commonTables = <<>> /\ tableIdx = 1 /\ tableResults = <<>>
  /\ insertQueries = <<>> /\ tableErrors = <<>>
  /\ batchOption = 0 /\ pkColumns = <<>> /\ cloudRows = <<>> /\ edgeRows = <<>>
  /\ totalCloud = 0
  /\ pageSide = "none" /\ offset = 0 /\ allRows = <<>> /\ retryCount = 0
  /\ queryLog = <<>>
  /\ pc = "idle" /\ event = Event("constructed", "", 0) /\ failures = 0

\* the schema model does not call the data comparison
DataIdle ==
  /\ Constructed
  /\ variant = "DatabaseComparator"
  /\ content = [cloud |-> <<>>, edge |-> <<>>]
  /\ calls = <<>>

(***************************************************************************)
(* Bounds of the schema model.                                             *)
(***************************************************************************)
MaxTables == 2      \* longest tableList of a snapshot
MaxCols   == 2      \* longest column list of the varied table

(***************************************************************************)
(* Generic helpers.                                                        *)
(***************************************************************************)
Range(s) == {s[i] : i \in 1..Len(s)}

IsDistinct(s) == \A i, j \in 1..Len(s) : i # j => s[i] # s[j]

\* all sequences without repetition over S of length at most n
RECURSIVE DistinctSeqs(_, _)
DistinctSeqs(S, n) ==
  IF n = 0 \/ S = {} THEN {<<>>}
  ELSE {<<>>} \cup UNION {{<<x>> \o t : t \in DistinctSeqs(S \ {x}, n - 1)} : x \in S}

\* Array.prototype.find(t => t.name === n): index of the first match, 0 if none
FirstIndex(s, n) ==
  IF \E i \in 1..Len(s) : s[i].name = n
  THEN CHOOSE i \in 1..Len(s) : s[i].name = n /\ \A j \in 1..(i - 1) : s[j].name # n
  ELSE 0

(***************************************************************************)
(* Names and their order under Array.prototype.sort() (code-unit order).   *)
(***************************************************************************)
SortedNames ==
  <<"created_at", "fk_a", "fk_b", "id", "items", "ix_a", "ix_b", "name", "orders", "users">>

Rank(n) == CHOOSE i \in 1..Len(SortedNames) : SortedNames[i] = n

RECURSIVE InsertSorted(_, _)
InsertSorted(x, s) ==
  IF s = <<>> THEN <<x>>
  ELSE IF Rank(x) < Rank(Head(s)) THEN <<x>> \o s
  ELSE <<Head(s)>> \o InsertSorted(x, Tail(s))

\* a comparison that forgets to sort
JsSortOmitted(s) == s

\* the array after .sort() with the default comparator
RECURSIVE JsSort(_)
JsSort(s) == IF s = <<>> THEN <<>> ELSE InsertSorted(Head(s), JsSort(Tail(s)))

NamesOf(s) == [i \in 1..Len(s) |-> s[i].name]

(***************************************************************************)
(* new Map(columns.map(col => [col.name, col])): keys keep the order of    *)
(* their first insertion, the value is the one set last.                   *)
(***************************************************************************)
MapKeys(cols) ==
  LET names == NamesOf(cols)
      firsts == {i \in 1..Len(cols) : \A j \in 1..(i - 1) : names[j] # names[i]}
      RECURSIVE Pick(_)
      Pick(i) == IF i > Len(cols) THEN <<>>
                 ELSE (IF i \in firsts THEN <<names[i]>> ELSE <<>>) \o Pick(i + 1)
  IN Pick(1)

MapHas(cols, n) == \E i \in 1..Len(cols) : cols[i].name = n

MapGet(cols, n) ==
  cols[CHOOSE i \in 1..Len(cols) :
         cols[i].name = n /\ \A j \in (i + 1)..Len(cols) : cols[j].name # n]


(***************************************************************************)
(* Table descriptors.  A column is [name, dataType, nullable,              *)
(* defaultValue]; a foreign key [name, columns, referencedTable,           *)
(* referencedColumns]; an index [name, unique, hasColumns, columns], where  *)
(* hasColumns is FALSE for a live-introspected index, which carries the    *)
(* definition text and no column list.  columnsIsArray is FALSE when the   *)
(* table's columns are given as a name-keyed object.                       *)
(***************************************************************************)
Col(n, t, nullable, d) ==
  [name |-> n, dataType |-> t, nullable |-> nullable, defaultValue |-> d]

ColumnVariants(n) ==
  CASE n = "id"   -> {Col("id", "integer", FALSE, "NULL"), Col("id", "bigint", FALSE, "NULL")}
    [] n = "name" -> {Col("name", "varchar", TRUE, "NULL"), Col("name", "varchar", FALSE, "NULL"),
                      Col("name", "text", TRUE, "NULL")}
    [] OTHER      -> {Col(n, "timestamp", TRUE, "now()")}

ColNames == {"id", "name", "created_at"}

\* every column list with distinct names of at most n columns
ColumnLists(n) ==
  UNION {{cl \in [1..Len(ns) -> UNION {ColumnVariants(c) : c \in ColNames}] :
            \A i \in 1..Len(ns) : cl[i].name = ns[i]} : ns \in DistinctSeqs(ColNames, n)}

IsAscending(names) == \A i \in 1..(Len(names) - 1) : Rank(names[i]) < Rank(names[i + 1])

Fk(n, c, rt) == [name |-> n, columns |-> <<c>>, referencedTable |-> rt, referencedColumns |-> <<"id">>]

Idx(n, u) == [name |-> n, unique |-> u, hasColumns |-> TRUE, columns |-> <<"name">>]

TableContent(n, cols, pks, fks, idxs) ==
  [name |-> n, columns |-> cols, columnsIsArray |-> TRUE,
   primaryKeys |-> pks, foreignKeys |-> fks, indexes |-> idxs]

(***************************************************************************)
(* Snapshots.  descs are the table descriptors in snapshot order; bare     *)
(* says that tableList holds the bare table names (strings) and the        *)
(* descriptors live in the tables map only; hasTables says that the        *)
(* snapshot has a tables map.                                              *)
(***************************************************************************)
\* getTableInfo: indexes come from pg_indexes as {name, definition, unique}
LiveTableInfo(t) ==
  [t EXCEPT !.indexes = [i \in 1..Len(t.indexes) |->
                           [t.indexes[i] EXCEPT !.hasColumns = FALSE, !.columns = <<>>]]]

\* DatabaseComparator.getSchemaInfo: one tableInfo per row of the table listing
LiveSchemaInfo(tables) ==
  [totalTables |-> Len(tables),
   descs |-> [i \in 1..Len(tables) |-> LiveTableInfo(tables[i])],
   bare |-> FALSE, hasTables |-> TRUE]

\* DumpParser.getSchemaInfo: totalTables and tableList only
DumpSchemaInfo(tables) ==
  [totalTables |-> Len(tables), descs |-> tables, bare |-> FALSE, hasTables |-> FALSE]

\* the snapshots test.js builds by hand
MockSchema(tables) ==
  [totalTables |-> Len(tables),
   descs |-> [i \in 1..Len(tables) |-> [tables[i] EXCEPT !.columnsIsArray = FALSE]],
   bare |-> TRUE, hasTables |-> TRUE]

SnapshotOf(kind, tables) ==
  CASE kind = "live" -> LiveSchemaInfo(tables)
    [] kind = "dump" -> DumpSchemaInfo(tables)
    [] OTHER         -> MockSchema(tables)


(***************************************************************************)
(* DatabaseComparator.compareTable                                         *)
(***************************************************************************)
OnlySourceText == "Column exists in source but not in target"
OnlyTargetText == "Column exists in target but not in source"
DataTypeText   == "Data type difference"
NullableText   == "Nullable difference"

ColDiff(n, text) == [columnName |-> n, difference |-> text]

\* first loop: columns of the source map that the target map lacks
MissingColumns(fromCols, otherCols, text) ==
  LET keys == MapKeys(fromCols)
      RECURSIVE Walk(_)
      Walk(i) == IF i > Len(keys) THEN <<>>
                 ELSE (IF ~MapHas(otherCols, keys[i]) THEN <<ColDiff(keys[i], text)>> ELSE <<>>)
                      \o Walk(i + 1)
  IN Walk(1)

\* third loop: columns held by both maps, one record per mismatch
CommonColumnDiffs(sourceColumns, targetColumns) ==
  LET keys == MapKeys(sourceColumns)
      ForKey(n) ==
        IF ~MapHas(targetColumns, n) THEN <<>>
        ELSE LET sourceCol == MapGet(sourceColumns, n)
                 targetCol == MapGet(targetColumns, n)
             IN (IF sourceCol.dataType # targetCol.dataType
                 THEN <<ColDiff(n, DataTypeText)>> ELSE <<>>)
                \o (IF sourceCol.nullable # targetCol.nullable
                    THEN <<ColDiff(n, NullableText)>> ELSE <<>>)
      RECURSIVE Walk(_)
      Walk(i) == IF i > Len(keys) THEN <<>> ELSE ForKey(keys[i]) \o Walk(i + 1)
  IN Walk(1)

\* a one-directional comparison: the loop over the target map is missing
ColumnDifferencesSourceOnly(sourceColumns, targetColumns) ==
  MissingColumns(sourceColumns, targetColumns, OnlySourceText)
    \o CommonColumnDiffs(sourceColumns, targetColumns)

ColumnDifferences(sourceColumns, targetColumns) ==
  MissingColumns(sourceColumns, targetColumns, OnlySourceText)
    \o MissingColumns(targetColumns, sourceColumns, OnlyTargetText)
    \o CommonColumnDiffs(sourceColumns, targetColumns)

\* primary keys: both lists sorted (in place) and compared as sequences
ConstraintDifferences(sourcePKs, targetPKs, sourceFKs, targetFKs) ==
  (IF sourcePKs # targetPKs
   THEN <<[constraintName |-> "PRIMARY KEY", source |-> sourcePKs, target |-> targetPKs]>>
   ELSE <<>>)
  \o (IF sourceFKs # targetFKs
      THEN <<[constraintName |-> "FOREIGN KEYS", source |-> sourceFKs, target |-> targetFKs]>>
      ELSE <<>>)

\* index names are never compared
IndexDifferencesNever(sourceIndexes, targetIndexes) == <<>>

IndexDifferences(sourceIndexes, targetIndexes) ==
  IF sourceIndexes # targetIndexes
  THEN <<[indexName |-> "ALL INDEXES", source |-> sourceIndexes, target |-> targetIndexes]>>
  ELSE <<>>

NoDifferences(tableName) ==
  [tableName |-> tableName, hasDifferences |-> FALSE,
   columnDifferences |-> <<>>, constraintDifferences |-> <<>>, indexDifferences |-> <<>>]

\* threw: columns.map is not a function when columns is not an array.
\* sourcePKs / targetPKs: the primaryKeys arrays after their in-place sort.
compareTable(sourceTable, targetTable, tableName) ==
  IF ~sourceTable.columnsIsArray \/ ~targetTable.columnsIsArray
  THEN [threw |-> TRUE, differences |-> NoDifferences(tableName),
        sourcePKs |-> sourceTable.primaryKeys, targetPKs |-> targetTable.primaryKeys]
  ELSE
    LET cd == ColumnDifferences(sourceTable.columns, targetTable.columns)
        sourcePKs == JsSort(sourceTable.primaryKeys)
        targetPKs == JsSort(targetTable.primaryKeys)
        sourceFKs == JsSort(NamesOf(sourceTable.foreignKeys))
        targetFKs == JsSort(NamesOf(targetTable.foreignKeys))
        sourceIndexes == JsSort(NamesOf(sourceTable.indexes))
        targetIndexes == JsSort(NamesOf(targetTable.indexes))
        kd == ConstraintDifferences(sourcePKs, targetPKs, sourceFKs, targetFKs)
        xd == IndexDifferences(sourceIndexes, targetIndexes)
    IN [threw |-> FALSE,
        differences |->
          [tableName |-> tableName,
           hasDifferences |-> (cd # <<>> \/ kd # <<>> \/ xd # <<>>),
           columnDifferences |-> cd, constraintDifferences |-> kd, indexDifferences |-> xd],
        sourcePKs |-> sourcePKs, targetPKs |-> targetPKs]

(***************************************************************************)
(* DatabaseComparator.generateCreateTableSQL.  The text is kept as the     *)
(* sequence of its statements.  threw: index.columns.map on an index       *)
(* descriptor without a column list.                                       *)
(***************************************************************************)
generateCreateTableSQL(tableInfo, queryType) ==
  LET cols == [i \in 1..Len(tableInfo.columns) |->
                 [name |-> tableInfo.columns[i].name,
                  dataType |-> tableInfo.columns[i].dataType,
                  notNull |-> ~tableInfo.columns[i].nullable,
                  default |-> tableInfo.columns[i].defaultValue]]
      create == <<[stmt |-> "CREATE TABLE", table |-> tableInfo.name, columns |-> cols]>>
      pk == IF Len(tableInfo.primaryKeys) > 0
            THEN <<[stmt |-> "PRIMARY KEY", table |-> tableInfo.name,
                    columns |-> tableInfo.primaryKeys]>>
            ELSE <<>>
      fks == [i \in 1..Len(tableInfo.foreignKeys) |->
                [stmt |-> "FOREIGN KEY", table |-> tableInfo.name,
                 name |-> tableInfo.foreignKeys[i].name,
                 columns |-> tableInfo.foreignKeys[i].columns]]
      idxs == [i \in 1..Len(tableInfo.indexes) |->
                 [stmt |-> "INDEX", table |-> tableInfo.name,
                  name |-> tableInfo.indexes[i].name,
                  unique |-> tableInfo.indexes[i].unique,
                  columns |-> tableInfo.indexes[i].columns]]
  IN [threw |-> \E i \in 1..Len(tableInfo.indexes) : ~tableInfo.indexes[i].hasColumns,
      sql |-> create \o pk \o fks \o idxs]


(***************************************************************************)
(* DatabaseComparator.compareSchemas                                       *)
(***************************************************************************)
\* tableList.map(table => typeof table === 'string' ? table : table.name)
TableNames(schema) == NamesOf(schema.descs)

CommonTables(sourceTableNames, targetTableNames) ==
  SelectSeq(sourceTableNames, LAMBDA t : t \in Range(targetTableNames))

\* filtering the source names against the source set
OnlyInSourceWrongSet(sourceTableNames, targetTableNames) ==
  SelectSeq(sourceTableNames, LAMBDA t : t \notin Range(sourceTableNames))

OnlyInSource(sourceTableNames, targetTableNames) ==
  SelectSeq(sourceTableNames, LAMBDA t : t \notin Range(targetTableNames))

OnlyInTarget(sourceTableNames, targetTableNames) ==
  SelectSeq(targetTableNames, LAMBDA t : t \notin Range(sourceTableNames))

\* tableList.find(t => t.name === tableName); a bare string has no name
FindInList(schema, tableName) ==
  IF schema.bare THEN 0
  ELSE FirstIndex(schema.descs, tableName)

\* schema.tables ? schema.tables[tableName] : schema.tableList.find(...)
LookupTable(schema, tableName) ==
  IF schema.hasTables
  THEN IF \E i \in 1..Len(schema.descs) : schema.descs[i].name = tableName
       THEN CHOOSE i \in 1..Len(schema.descs) :
              /\ schema.descs[i].name = tableName
              /\ \A j \in (i + 1)..Len(schema.descs) : schema.descs[j].name # tableName
       ELSE 0
  ELSE FindInList(schema, tableName)

\* the loop over commonTables; compareTable sorts both primaryKeys arrays in place
RECURSIVE CompareCommon(_, _, _, _)
CompareCommon(names, src, tgt, diffs) ==
  IF names = <<>>
  THEN [threw |-> FALSE, src |-> src, tgt |-> tgt, diffs |-> diffs]
  ELSE LET n  == Head(names)
           si == LookupTable(src, n)
           ti == LookupTable(tgt, n)
       IN IF si = 0 \/ ti = 0
          THEN CompareCommon(Tail(names), src, tgt, diffs)
          ELSE LET r == compareTable(src.descs[si], tgt.descs[ti], n)
               IN IF r.threw
                  THEN [threw |-> TRUE, src |-> src, tgt |-> tgt, diffs |-> diffs]
                  ELSE CompareCommon(Tail(names),
                         [src EXCEPT !.descs[si].primaryKeys = r.sourcePKs],
                         [tgt EXCEPT !.descs[ti].primaryKeys = r.targetPKs],
                         IF r.differences.hasDifferences
                         THEN Append(diffs, r.differences) ELSE diffs)

\* the two loops that build createTableQueries
RECURSIVE CreateQueries(_, _, _)
CreateQueries(names, schema, queryType) ==
  IF names = <<>> THEN [threw |-> FALSE, queries |-> <<>>]
  ELSE LET i == FindInList(schema, Head(names))
           rest == CreateQueries(Tail(names), schema, queryType)
       IN IF i = 0 THEN rest
          ELSE LET g == generateCreateTableSQL(schema.descs[i], queryType)
               IN IF g.threw \/ rest.threw THEN [threw |-> TRUE, queries |-> <<>>]
                  ELSE [threw |-> FALSE,
                        queries |-> <<[type |-> queryType, tableName |-> Head(names),
                                       sql |-> g.sql]>> \o rest.queries]

NoComparison ==
  [status |-> "none", sourceTotal |-> 0, targetTotal |-> 0,
   commonTables |-> <<>>, onlyInSource |-> <<>>, onlyInTarget |-> <<>>,
   tableDifferences |-> <<>>, createTableQueries |-> <<>>]

compareSchemas(src, tgt) ==
  LET sourceTableNames == TableNames(src)
      targetTableNames == TableNames(tgt)
      commonNames == CommonTables(sourceTableNames, targetTableNames)
      onlyInSource == OnlyInSource(sourceTableNames, targetTableNames)
      onlyInTarget == OnlyInTarget(sourceTableNames, targetTableNames)
      c  == CompareCommon(commonNames, src, tgt, <<>>)
      qs == CreateQueries(onlyInSource, src, "CREATE_IN_EDGE")
      qt == CreateQueries(onlyInTarget, tgt, "CREATE_IN_CLOUD")
      threw == c.threw \/ qs.threw \/ qt.threw
  IN [src |-> c.src, tgt |-> c.tgt,
      result |->
        IF threw THEN [NoComparison EXCEPT !.status = "threw"]
        ELSE [status |-> "returned",
              sourceTotal |-> src.totalTables, targetTotal |-> tgt.totalTables,
              commonTables |-> commonNames,
              onlyInSource |-> onlyInSource, onlyInTarget |-> onlyInTarget,
              tableDifferences |-> c.diffs,
              createTableQueries |-> qs.queries \o qt.queries]]

NoTableDiff == [status |-> "none", differences |-> NoDifferences("")]

(***************************************************************************)
(* Inputs of the schema model.                                             *)
(***************************************************************************)
PKLists == {<<>>, <<"id">>, <<"id", "name">>, <<"name", "id">>}

FKLists ==
  {<<>>, <<Fk("fk_a", "id", "orders")>>,
   <<Fk("fk_a", "id", "orders"), Fk("fk_b", "name", "orders")>>,
   <<Fk("fk_b", "name", "orders"), Fk("fk_a", "name", "users")>>}

IdxLists ==
  {<<>>, <<Idx("ix_a", FALSE)>>, <<Idx("ix_a", FALSE), Idx("ix_b", TRUE)>>,
   <<Idx("ix_b", TRUE), Idx("ix_a", TRUE)>>}

Constraints(pks, fks, idxs) == [primaryKeys |-> pks, foreignKeys |-> fks, indexes |-> idxs]

AllConstraints == {Constraints(p, f, x) : p \in PKLists, f \in FKLists, x \in IdxLists}

\* the constraints the source table is drawn from
SourceConstraints ==
  {Constraints(<<>>, <<>>, <<>>),
   Constraints(<<"id", "name">>, <<Fk("fk_a", "id", "orders"), Fk("fk_b", "name", "orders")>>,
               <<Idx("ix_a", FALSE), Idx("ix_b", TRUE)>>),
   Constraints(<<"name", "id">>, <<Fk("fk_a", "id", "orders")>>, <<Idx("ix_a", FALSE)>>)}

SourceColumnLists == {cl \in ColumnLists(MaxCols) : IsAscending(NamesOf(cl))}

FewColumnLists ==
  {<<Col("id", "integer", FALSE, "NULL"), Col("name", "varchar", TRUE, "NULL")>>,
   <<Col("name", "varchar", TRUE, "NULL"), Col("id", "integer", FALSE, "NULL")>>,
   <<Col("id", "integer", FALSE, "NULL"), Col("name", "varchar", TRUE, "NULL"),
     Col("created_at", "timestamp", TRUE, "now()")>>}

FewConstraints ==
  {Constraints(<<>>, <<>>, <<>>),
   Constraints(<<"id">>, <<Fk("fk_a", "id", "orders")>>, <<Idx("ix_a", FALSE)>>)}

Users(cols, k) == TableContent("users", cols, k.primaryKeys, k.foreignKeys, k.indexes)

Orders ==
  TableContent("orders", <<Col("id", "integer", FALSE, "NULL")>>, <<"id">>, <<>>,
               <<Idx("ix_a", TRUE)>>)

\* pairs of users tables: every column pairing under few constraints, and
\* every constraint pairing under few column lists
UsersPairs ==
  {<<Users(sc, k), Users(tc, k2)>> :
     sc \in SourceColumnLists, tc \in ColumnLists(MaxCols), k \in FewConstraints, k2 \in FewConstraints}
  \cup
  {<<Users(sc, k), Users(tc, k2)>> :
     sc \in FewColumnLists, tc \in FewColumnLists, k \in SourceConstraints, k2 \in AllConstraints}

FewUsersPairs ==
  {<<Users(sc, k), Users(tc, k2)>> :
     sc \in {cl \in FewColumnLists : Len(cl) = 2},
     tc \in FewColumnLists, k \in FewConstraints, k2 \in FewConstraints}

Items == TableContent("items", <<Col("id", "bigint", FALSE, "NULL")>>, <<>>, <<>>, <<>>)

\* the tables of one side: users (as given), orders and items in some order
Layout(names, users) ==
  [i \in 1..Len(names) |->
     CASE names[i] = "users" -> users [] names[i] = "orders" -> Orders [] OTHER -> Items]

Layouts == DistinctSeqs({"users", "orders", "items"}, MaxTables)

SnapshotKinds == {"live", "dump", "mock"}

\* a live table listing is ORDER BY table_name
KindAllows(kind, names) == kind = "live" => IsAscending(names)

SchemaIdle ==
  /\ comparison = NoComparison
  /\ tableDiff = NoTableDiff
  /\ schemaPc = "ready"

InitSchema ==
  /\ SchemaIdle
  /\ DataIdle
  /\ ExecIdle
  /\ FilterIdle
  /\ ConnIdle
  /\ ParseIdle
  /\ SqlIdle
  /\ \/ \E pair \in UsersPairs, kind \in {"live", "dump"} :
          /\ sourceSchema = SnapshotOf(kind, <<pair[1]>>)
          /\ targetSchema = SnapshotOf(kind, <<pair[2]>>)
     \/ \E pair \in FewUsersPairs, sk \in SnapshotKinds, tk \in SnapshotKinds,
           sn \in Layouts, tn \in Layouts :
          /\ KindAllows(sk, sn) /\ KindAllows(tk, tn)
          /\ sourceSchema = SnapshotOf(sk, Layout(sn, pair[1]))
          /\ targetSchema = SnapshotOf(tk, Layout(tn, pair[2]))

(***************************************************************************)
(* Actions of the schema model.                                            *)
(***************************************************************************)
CompareSchemas ==
  /\ schemaPc = "ready"
  /\ LET r == compareSchemas(sourceSchema, targetSchema)
     IN /\ comparison' = r.result
        /\ sourceSchema' = r.src
        /\ targetSchema' = r.tgt
  /\ schemaPc' = "compared"
  /\ UNCHANGED <<tableDiff, schemaRest>>

\* a direct call of compareTable on the descriptors of a table both sides hold
CompareTable ==
  /\ schemaPc = "ready"
  /\ \E si \in 1..Len(sourceSchema.descs), ti \in 1..Len(targetSchema.descs) :
       /\ sourceSchema.descs[si].name = targetSchema.descs[ti].name
       /\ LET r == compareTable(sourceSchema.descs[si], targetSchema.descs[ti],
                                sourceSchema.descs[si].name)
          IN /\ tableDiff' = [status |-> IF r.threw THEN "threw" ELSE "returned",
                              differences |-> r.differences]
             /\ sourceSchema' = IF r.threw THEN sourceSchema
                                ELSE [sourceSchema EXCEPT !.descs[si].primaryKeys = r.sourcePKs]
             /\ targetSchema' = IF r.threw THEN targetSchema
                                ELSE [targetSchema EXCEPT !.descs[ti].primaryKeys = r.targetPKs]
  /\ schemaPc' = "tableCompared"
  /\ UNCHANGED <<comparison, schemaRest>>

NextSchema == CompareSchemas \/ CompareTable

SpecSchema == InitSchema /\ [][NextSchema]_vars


(***************************************************************************)
(* Properties of the schema comparison.                                    *)
(***************************************************************************)
DescNamed(schema, n) ==
  schema.descs[CHOOSE i \in 1..Len(schema.descs) : schema.descs[i].name = n]

HasTable(schema, n) == \E i \in 1..Len(schema.descs) : schema.descs[i].name = n

ColumnFacts(t) ==
  {<<t.columns[i].name, t.columns[i].dataType, t.columns[i].nullable>> : i \in 1..Len(t.columns)}

ColumnNames(t) == {t.columns[i].name : i \in 1..Len(t.columns)}

\* same columns, primary-key columns, foreign-key names and index names, in any order
SameStructure(s, t) ==
  /\ s.columnsIsArray /\ t.columnsIsArray
  /\ ColumnFacts(s) = ColumnFacts(t)
  /\ Range(s.primaryKeys) = Range(t.primaryKeys)
  /\ Range(NamesOf(s.foreignKeys)) = Range(NamesOf(t.foreignKeys))
  /\ Range(NamesOf(s.indexes)) = Range(NamesOf(t.indexes))

\* the pair of descriptors the direct compareTable call was given
ComparedSource == DescNamed(sourceSchema, tableDiff.differences.tableName)
ComparedTarget == DescNamed(targetSchema, tableDiff.differences.tableName)

\* C1: whenever compareSchemas returns, commonTables and onlyInSource add up
\* to the source's totalTables, and commonTables and onlyInTarget to the target's.
C1_TableCountsAddUp ==
  comparison.status = "returned" =>
    /\ Len(comparison.commonTables) + Len(comparison.onlyInSource) = comparison.sourceTotal
    /\ Len(comparison.commonTables) + Len(comparison.onlyInTarget) = comparison.targetTotal

C1_Witness ==
  /\ comparison.status = "returned"
  /\ comparison.commonTables # <<>>
  /\ comparison.onlyInSource # <<>>
  /\ comparison.onlyInTarget # <<>>

\* C2: compareTable on two descriptors with the same columns, primary-key
\* columns, foreign-key names and index names (in any order) reports no
\* difference: hasDifferences is false and the three lists are empty; and
\* compareSchemas lists no such table in tableDifferences.
C2_SameStructureNoDifference ==
  /\ (tableDiff.status = "returned" /\ SameStructure(ComparedSource, ComparedTarget)) =>
       tableDiff.differences = NoDifferences(tableDiff.differences.tableName)
  /\ comparison.status = "returned" =>
       \A i \in 1..Len(comparison.tableDifferences) :
         LET n == comparison.tableDifferences[i].tableName
         IN ~SameStructure(DescNamed(sourceSchema, n), DescNamed(targetSchema, n))

C2_Witness ==
  /\ tableDiff.status = "returned"
  /\ SameStructure(ComparedSource, ComparedTarget)
  /\ ComparedSource.columns # ComparedTarget.columns
  /\ NamesOf(ComparedSource.foreignKeys) # NamesOf(ComparedTarget.foreignKeys)
  /\ NamesOf(ComparedSource.indexes) # NamesOf(ComparedTarget.indexes)
  /\ Len(ComparedSource.primaryKeys) = 2

\* the column difference records about column n with the given text
RecordsAbout(n, text) ==
  {i \in 1..Len(tableDiff.differences.columnDifferences) :
     tableDiff.differences.columnDifferences[i] = ColDiff(n, text)}

ColumnOf(t, n) == t.columns[CHOOSE i \in 1..Len(t.columns) : t.columns[i].name = n]

\* C3: compareTable yields exactly one record for a column held by one side
\* only (naming the side), one record per mismatch of data type and of
\* nullable flag for a column held by both, and nothing else; so a target
\* with exactly one extra column, otherwise identical, yields exactly that
\* one record and hasDifferences = true.
C3_ColumnRecords ==
  tableDiff.status = "returned" =>
    LET s == ComparedSource
        t == ComparedTarget
        d == tableDiff.differences
        Expected(n) ==
          CASE n \in ColumnNames(s) \ ColumnNames(t) -> {OnlySourceText}
            [] n \in ColumnNames(t) \ ColumnNames(s) -> {OnlyTargetText}
            [] n \in ColumnNames(s) \cap ColumnNames(t) ->
                 (IF ColumnOf(s, n).dataType # ColumnOf(t, n).dataType
                  THEN {DataTypeText} ELSE {})
                 \cup (IF ColumnOf(s, n).nullable # ColumnOf(t, n).nullable
                       THEN {NullableText} ELSE {})
            [] OTHER -> {}
        Texts == {OnlySourceText, OnlyTargetText, DataTypeText, NullableText}
    IN /\ \A n \in ColNames, text \in Texts :
            Cardinality(RecordsAbout(n, text)) = IF text \in Expected(n) THEN 1 ELSE 0
       /\ \A i \in 1..Len(d.columnDifferences) :
            /\ d.columnDifferences[i].columnName \in ColNames
            /\ d.columnDifferences[i].difference \in Texts
       /\ d.columnDifferences # <<>> => d.hasDifferences
       /\ \A n \in ColNames :
            (/\ ColumnNames(t) \ ColumnNames(s) = {n}
             /\ ColumnFacts(s) \subseteq ColumnFacts(t))
            => /\ d.columnDifferences = <<ColDiff(n, OnlyTargetText)>>
               /\ d.hasDifferences

C3_Witness ==
  /\ tableDiff.status = "returned"
  /\ ColumnNames(ComparedSource) = {"id", "name"}
  /\ ColumnNames(ComparedTarget) = {"id", "name", "created_at"}
  /\ ColumnFacts(ComparedSource) \subseteq ColumnFacts(ComparedTarget)
  /\ tableDiff.differences.columnDifferences = <<ColDiff("created_at", OnlyTargetText)>>
  /\ tableDiff.differences.hasDifferences

\* a common table whose target has a column that the source lacks
TargetHasExtraColumn ==
  \E n \in Range(CommonTables(TableNames(sourceSchema), TableNames(targetSchema))) :
    ColumnNames(DescNamed(targetSchema, n)) \ ColumnNames(DescNamed(sourceSchema, n)) # {}

\* C4: compareSchemas on snapshots in the shape test.js passes (bare table
\* names in tableList, a tables map, columns as a name-keyed object) returns
\* normally and reports the table whose target has an extra column.
C4_MockSnapshotsCompared ==
  (/\ schemaPc = "compared"
   /\ sourceSchema.bare /\ targetSchema.bare
   /\ TargetHasExtraColumn)
  => /\ comparison.status = "returned"
     /\ comparison.tableDifferences # <<>>

\* the kinds of the statements of a descriptor, in the order of generation:
\* index descriptors without a column list give no statement
StatementKinds(t) ==
  LET listed == SelectSeq(t.indexes, LAMBDA x : x.hasColumns)
  IN <<"CREATE TABLE">>
     \o (IF t.primaryKeys # <<>> THEN <<"PRIMARY KEY">> ELSE <<>>)
     \o [i \in 1..Len(t.foreignKeys) |-> "FOREIGN KEY"]
     \o [i \in 1..Len(listed) |-> "INDEX"]

\* a query of the given type for the table, with the statements of its descriptor
HasCreateQuery(queryType, t) ==
  \E i \in 1..Len(comparison.createTableQueries) :
    LET q == comparison.createTableQueries[i]
    IN /\ q.type = queryType /\ q.tableName = t.name
       /\ [j \in 1..Len(q.sql) |-> q.sql[j].stmt] = StatementKinds(t)

\* C24: compareSchemas on snapshots of databases or dumps returns, and for
\* every table that only one side holds createTableQueries has a query whose
\* text is the CREATE TABLE statement, the PRIMARY KEY statement when there
\* are key columns, one FOREIGN KEY statement per foreign key and one INDEX
\* statement per index descriptor with a column list, in this order; index
\* descriptors without a column list are skipped.
C24_CreateQueryForEveryMissingTable ==
  (schemaPc = "compared" /\ ~sourceSchema.bare /\ ~targetSchema.bare) =>
    /\ comparison.status = "returned"
    /\ \A i \in 1..Len(sourceSchema.descs) :
         ~HasTable(targetSchema, sourceSchema.descs[i].name)
         => HasCreateQuery("CREATE_IN_EDGE", sourceSchema.descs[i])
    /\ \A i \in 1..Len(targetSchema.descs) :
         ~HasTable(sourceSchema, targetSchema.descs[i].name)
         => HasCreateQuery("CREATE_IN_CLOUD", targetSchema.descs[i])

\* the same names the same number of times
SameNames(a, b) ==
  \A n \in Range(NamesOf(a)) \cup Range(NamesOf(b)) :
    Cardinality({i \in 1..Len(a) : a[i].name = n})
      = Cardinality({i \in 1..Len(b) : b[i].name = n})

ForeignKeyRecords ==
  {i \in 1..Len(tableDiff.differences.constraintDifferences) :
     tableDiff.differences.constraintDifferences[i].constraintName = "FOREIGN KEYS"}

\* C25: compareTable reports no FOREIGN KEYS record when the two tables have
\* the same foreign-key names, whatever the keys' columns and referenced
\* tables, and exactly one when the names differ; independently, no index
\* record when the index names are the same and exactly one when they differ.
C25_KeysAndIndexesByName ==
  tableDiff.status = "returned" =>
    /\ Cardinality(ForeignKeyRecords) =
         IF SameNames(ComparedSource.foreignKeys, ComparedTarget.foreignKeys) THEN 0 ELSE 1
    /\ Len(tableDiff.differences.indexDifferences) =
         IF SameNames(ComparedSource.indexes, ComparedTarget.indexes) THEN 0 ELSE 1

\* foreign keys of the same names on other columns and tables give no record,
\* while the index names differ and give one
C25_Witness ==
  /\ tableDiff.status = "returned"
  /\ Len(ComparedSource.foreignKeys) = 2
  /\ SameNames(ComparedSource.foreignKeys, ComparedTarget.foreignKeys)
  /\ \E i, j \in 1..2 :
       /\ ComparedSource.foreignKeys[i].name = ComparedTarget.foreignKeys[j].name
       /\ ComparedSource.foreignKeys[i].columns # ComparedTarget.foreignKeys[j].columns
       /\ ComparedSource.foreignKeys[i].referencedTable
            # ComparedTarget.foreignKeys[j].referencedTable
  /\ ForeignKeyRecords = {}
  /\ ~SameNames(ComparedSource.indexes, ComparedTarget.indexes)
  /\ Len(tableDiff.differences.indexDifferences) = 1

\* a live snapshot holds a table with an index that the other side lacks,
\* and compareSchemas threw
C24_LiveIndexThrows ==
  /\ schemaPc = "compared" /\ ~sourceSchema.bare /\ ~targetSchema.bare
  /\ comparison.status = "threw"
  /\ \E i \in 1..Len(sourceSchema.descs) :
       /\ ~HasTable(targetSchema, sourceSchema.descs[i].name)
       /\ \E x \in 1..Len(sourceSchema.descs[i].indexes) :
            ~sourceSchema.descs[i].indexes[x].hasColumns


(***************************************************************************)
(* Bounds and program constants of the data model.                         *)
(***************************************************************************)
MaxRows     == 5      \* most rows a table holds
MaxFailures == 3      \* most failures the environment injects
MaxRuns     == 2      \* most invocations of compareData on one instance
MaxDumpRows == 2      \* most records of a dump table in the record-list inputs

DefaultBatchSize  == 10000
DefaultMaxRetries == 3
MinRetryBatchSize == 1000

(***************************************************************************)
(* Values and records.  A value is its JavaScript type and its String()    *)
(* text; a record is the ordered key list Object.keys returns and the      *)
(* value of each key.                                                      *)
(***************************************************************************)
Num(i)  == [type |-> "number", text |-> ToString(i)]
Str(t)  == [type |-> "string", text |-> t]
Null    == [type |-> "null", text |-> ""]
Undefined == [type |-> "undefined", text |-> ""]

Rec(keys, val) == [keys |-> keys, val |-> val]

\* record[col]
Get(record, col) == IF col \in DOMAIN record.val THEN record.val[col] ELSE Undefined

\* Array.prototype.join: null and undefined become the empty string
RECURSIVE Join(_, _)
Join(texts, sep) ==
  IF texts = <<>> THEN ""
  ELSE IF Len(texts) = 1 THEN texts[1]
  ELSE texts[1] \o sep \o Join(Tail(texts), sep)

createRecordKey(record, cols) ==
  Join([i \in 1..Len(cols) |-> Get(record, cols[i]).text], "|")

(***************************************************************************)
(* The reconciliation shared by compareTableData and compareDumpTableData: *)
(* a Map per side from record key to record, then the two difference loops.*)
(***************************************************************************)
KeysOf(rows, cols) == [i \in 1..Len(rows) |-> createRecordKey(rows[i], cols)]

\* the entries of the Map after rows.forEach(row => map.set(key, row))
RecordMap(rows, cols) ==
  LET keys == KeysOf(rows, cols)
      last(k) == CHOOSE i \in 1..Len(rows) :
                   keys[i] = k /\ \A j \in (i + 1)..Len(rows) : keys[j] # k
      RECURSIVE Walk(_)
      Walk(i) == IF i > Len(rows) THEN <<>>
                 ELSE (IF \A j \in 1..(i - 1) : keys[j] # keys[i]
                       THEN <<[key |-> keys[i], record |-> rows[last(keys[i])]]>>
                       ELSE <<>>) \o Walk(i + 1)
  IN Walk(1)

\* the records of map a that map b does not hold as records
MissingFromByRecord(a, b) ==
  LET bRecords == {b[i].record : i \in 1..Len(b)}
      kept == SelectSeq(a, LAMBDA e : e.record \notin bRecords)
  IN [i \in 1..Len(kept) |-> kept[i].record]

\* the records of map a whose key map b does not hold
MissingFrom(a, b) ==
  LET bKeys == {b[i].key : i \in 1..Len(b)}
      kept == SelectSeq(a, LAMBDA e : e.key \notin bKeys)
  IN [i \in 1..Len(kept) |-> kept[i].record]

EmptyResult(tableName) ==
  [tableName |-> tableName, hasDifferences |-> FALSE,
   missingInCloud |-> <<>>, missingInEdge |-> <<>>,
   totalCloudRecords |-> 0, totalEdgeRecords |-> 0]

Reconcile(tableName, cRows, eRows, cols) ==
  LET cloudRecords == RecordMap(cRows, cols)
      edgeRecords  == RecordMap(eRows, cols)
      missingInEdge  == MissingFrom(cloudRecords, edgeRecords)
      missingInCloud == MissingFrom(edgeRecords, cloudRecords)
  IN [tableName |-> tableName,
      hasDifferences |-> (Len(missingInCloud) > 0 \/ Len(missingInEdge) > 0),
      missingInCloud |-> missingInCloud, missingInEdge |-> missingInEdge,
      totalCloudRecords |-> Len(cRows), totalEdgeRecords |-> Len(eRows)]

\* ['id'] whatever the sample record holds
KeysFromSampleAlwaysId(sample) == <<"id">>

\* key columns inferred from a sample record: ['id'] or Object.keys(sample)
KeysFromSample(sample) ==
  IF Get(sample, "id").type # "undefined" THEN <<"id">> ELSE sample.keys

\* compareDumpTableData: the sample is the first cloud record, else the first edge record
DumpKeyColumns(cloudRecords, edgeRecords) ==
  IF Len(cloudRecords) > 0 THEN KeysFromSample(cloudRecords[1])
  ELSE IF Len(edgeRecords) > 0 THEN KeysFromSample(edgeRecords[1])
  ELSE <<>>

compareDumpTableData(tableName, cloudRecords, edgeRecords) ==
  LET cols == DumpKeyColumns(cloudRecords, edgeRecords)
  IN IF Len(cols) = 0
     THEN [EmptyResult(tableName) EXCEPT !.totalCloudRecords = Len(cloudRecords),
                                         !.totalEdgeRecords = Len(edgeRecords)]
     ELSE Reconcile(tableName, cloudRecords, edgeRecords, cols)

\* each tuple built from the keys of its own record
InsertQueryOwnColumns(type, tableName, records) ==
  [type |-> type, tableName |-> tableName, recordCount |-> Len(records),
   columns |-> records[1].keys,
   rows |-> [i \in 1..Len(records) |->
               [j \in 1..Len(records[i].keys) |-> Get(records[i], records[i].keys[j])]]]

\* generateInsertQueries: one query per non-empty missing list, its columns
\* taken from the first record
InsertQuery(type, tableName, records) ==
  [type |-> type, tableName |-> tableName, recordCount |-> Len(records),
   columns |-> records[1].keys,
   rows |-> [i \in 1..Len(records) |->
               [j \in 1..Len(records[1].keys) |-> Get(records[i], records[1].keys[j])]]]

generateInsertQueries(tableName, tableResult) ==
  (IF Len(tableResult.missingInEdge) > 0
   THEN <<InsertQuery("INSERT_TO_EDGE", tableName, tableResult.missingInEdge)>> ELSE <<>>)
  \o (IF Len(tableResult.missingInCloud) > 0
      THEN <<InsertQuery("INSERT_TO_CLOUD", tableName, tableResult.missingInCloud)>> ELSE <<>>)


(***************************************************************************)
(* Options, clients and the contents of the two sides.                     *)
(***************************************************************************)
Max(a, b) == IF a >= b THEN a ELSE b
Min(a, b) == IF a <= b THEN a ELSE b

\* options.batchSize || 10000 (0 stands for an absent option)
EffectiveBatchSize(b) == IF b = 0 THEN DefaultBatchSize ELSE b

\* one attempt fewer than asked for
EffectiveMaxRetriesOneLess(r) == (IF r = 0 THEN DefaultMaxRetries ELSE r) - 1

\* options.maxRetries || 3
EffectiveMaxRetries(r) == IF r = 0 THEN DefaultMaxRetries ELSE r

\* the batch size halved, without the floor of 1000
RetryBatchSizeHalved(b) == EffectiveBatchSize(b) \div 2

\* Math.max(1000, (options.batchSize || 10000) / 2); the division is exact
\* for every batch size of this model whose half exceeds 1000
RetryBatchSize(b) == Max(MinRetryBatchSize, EffectiveBatchSize(b) \div 2)

IsDataRun == variant \in {"DataComparator", "DataComparatorPaginated"}

\* the class definitions that connect through createClient
UsesCreateClient == variant \in {"DataComparatorPaginated", "DatabaseComparator"}

IsDump(side) == IF side = "cloud" THEN options.cloudDump ELSE options.edgeDump

BothDumps == options.cloudDump /\ options.edgeDump

ClientOf(side) == IF side = "cloud" THEN cloudClient ELSE edgeClient

\* a query succeeds only on a connected client that was not ended; on an
\* undefined client it is a TypeError, on an ended one a pg error
Usable(c) == c # 0 /\ clients[c].connected /\ clients[c].ended = 0

HasTableNamed(side, n) == \E i \in 1..Len(content[side]) : content[side][i].name = n

TableOf(side, n) ==
  content[side][CHOOSE i \in 1..Len(content[side]) : content[side][i].name = n]

\* data[tableName]?.records of a parsed dump; undefined data gives no record
DumpRecords(side, n) ==
  IF IsDump(side) /\ HasTableNamed(side, n) THEN TableOf(side, n).rows ELSE <<>>

\* the rows a SELECT ... ORDER BY key LIMIT l OFFSET o returns
BatchOf(rows, l, o) == SubSeq(rows, o + 1, Min(Len(rows), o + l))

CurrentTable == commonTables[tableIdx]

(***************************************************************************)
(* compareData / compareDatabases: start, sources, common tables.          *)
(***************************************************************************)
ResetTable ==
  /\ pkColumns' = <<>> /\ cloudRows' = <<>> /\ edgeRows' = <<>> /\ totalCloud' = 0

ResetPage ==
  /\ pageSide' = "none" /\ offset' = 0 /\ allRows' = <<>> /\ retryCount' = 0
  /\ queryLog' = <<>>

\* the caller invokes compareData (compareDatabases) on the instance
StartRun ==
  /\ pc = "idle"
  /\ run < Len(calls)
  /\ run' = run + 1
  /\ options' = calls[run + 1]
  /\ outcome' = "none"
  /\ commonTables' = <<>> /\ tableIdx' = 1 /\ tableResults' = <<>>
  /\ insertQueries' = <<>> /\ tableErrors' = <<>>
  /\ batchOption' = calls[run + 1].batchSize
  /\ ResetTable /\ ResetPage
  /\ pc' = "cloud"
  /\ event' = Event("start", "", 0)
  /\ UNCHANGED <<dataRest, envVars, clientVars, failures>>

SideAt == IF pc = "cloud" THEN "cloud" ELSE "edge"

\* where compareData / compareDatabases goes after a side is ready
AfterSource(side, live) ==
  IF IsDataRun THEN (IF side = "cloud" THEN "edge" ELSE "common")
  ELSE IF live THEN (IF side = "cloud" THEN "cloudSchema" ELSE "edgeSchema")
  ELSE (IF side = "cloud" THEN "edge" ELSE "compareSchemas")

NewClient(side, connected) ==
  [side |-> side, run |-> run, connected |-> connected, ended |-> 0]

\* the dump is parsed, or the connection is opened and stored in the field
OpenSource ==
  /\ pc \in {"cloud", "edge"}
  /\ IF IsDump(SideAt)
     THEN UNCHANGED clientVars
     ELSE /\ clients' = Append(clients, NewClient(SideAt, TRUE))
          /\ IF SideAt = "cloud"
             THEN cloudClient' = Len(clients) + 1 /\ UNCHANGED edgeClient
             ELSE edgeClient' = Len(clients) + 1 /\ UNCHANGED cloudClient
  /\ pc' = AfterSource(SideAt, ~IsDump(SideAt))
  /\ event' = Event("opened", "", 0)
  /\ UNCHANGED <<dataRest, envVars, runVars, loopVars, tableVars, pageVars, failures>>

\* parseDumpFile or connect throws.  createClient ends the clients it made
\* and the field keeps its old value; the in-place variants have stored the
\* unconnected Client in the field before connect() is awaited.
OpenSourceFails ==
  /\ pc \in {"cloud", "edge"}
  /\ failures < MaxFailures
  /\ failures' = failures + 1
  /\ IF IsDump(SideAt) \/ UsesCreateClient
     THEN UNCHANGED clientVars
     ELSE /\ clients' = Append(clients, NewClient(SideAt, FALSE))
          /\ IF SideAt = "cloud"
             THEN cloudClient' = Len(clients) + 1 /\ UNCHANGED edgeClient
             ELSE edgeClient' = Len(clients) + 1 /\ UNCHANGED cloudClient
  /\ outcome' = "threw"
  /\ pc' = "finally"
  /\ event' = Event("openFailed", "other", 0)
  /\ UNCHANGED <<dataRest, envVars, run, options, loopVars, tableVars, pageVars>>

\* compareDatabases: getSchemaInfo on the side just connected
IntrospectSchema ==
  /\ pc \in {"cloudSchema", "edgeSchema"}
  /\ pc' = IF pc = "cloudSchema" THEN "edge" ELSE "compareSchemas"
  /\ event' = Event("introspected", "", 0)
  /\ UNCHANGED <<dataRest, envVars, clientVars, runVars, loopVars, tableVars, pageVars, failures>>

IntrospectSchemaFails ==
  /\ pc \in {"cloudSchema", "edgeSchema"}
  /\ failures < MaxFailures
  /\ failures' = failures + 1
  /\ outcome' = "threw"
  /\ pc' = "finally"
  /\ event' = Event("introspectFailed", "other", 0)
  /\ UNCHANGED <<dataRest, envVars, clientVars, run, options, loopVars, tableVars, pageVars>>

\* compareDatabases: compareSchemas returns or throws
CompareSnapshots ==
  /\ pc = "compareSchemas"
  /\ \E threw \in BOOLEAN : outcome' = IF threw THEN "threw" ELSE "returned"
  /\ pc' = "finally"
  /\ event' = Event("schemasCompared", "", 0)
  /\ UNCHANGED <<dataRest, envVars, clientVars, run, options, loopVars, tableVars, pageVars, failures>>

\* Object.keys(cloudData).filter(table => edgeTables.includes(table))
DumpCommonTables ==
  SelectSeq(NamesOf(content["cloud"]), LAMBDA t : t \in Range(NamesOf(content["edge"])))

\* getCommonTables: both listings are ORDER BY table_name (contents are kept in that order)
LiveCommonTables ==
  SelectSeq(NamesOf(content["cloud"]), LAMBDA t : t \in Range(NamesOf(content["edge"])))

\* both dumps: the common keys; otherwise getCommonTables, which queries
\* this.cloudClient and this.edgeClient and throws when one is not usable
FindCommonTables ==
  /\ pc = "common"
  /\ IF BothDumps
     THEN /\ commonTables' = DumpCommonTables
          /\ pc' = "loop" /\ UNCHANGED outcome
          /\ event' = Event("commonTables", "", 0)
     ELSE IF Usable(cloudClient) /\ Usable(edgeClient)
     THEN /\ commonTables' = LiveCommonTables
          /\ pc' = "loop" /\ UNCHANGED outcome
          /\ event' = Event("commonTables", "", 0)
     ELSE /\ UNCHANGED commonTables
          /\ pc' = "finally" /\ outcome' = "threw"
          /\ event' = Event("commonTablesThrew", "other", 0)
  /\ UNCHANGED <<dataRest, envVars, clientVars, run, options, tableIdx, tableResults,
                 insertQueries, tableErrors, tableVars, pageVars, failures>>

\* one of the two listing queries of getCommonTables fails
CommonTablesQueryFails ==
  /\ pc = "common"
  /\ ~BothDumps /\ Usable(cloudClient) /\ Usable(edgeClient)
  /\ failures < MaxFailures
  /\ failures' = failures + 1
  /\ pc' = "finally" /\ outcome' = "threw"
  /\ event' = Event("commonTablesThrew", "other", 0)
  /\ UNCHANGED <<dataRest, envVars, clientVars, run, options, loopVars, tableVars, pageVars>>


(***************************************************************************)
(* The table loop of compareData.                                          *)
(***************************************************************************)
\* results.tableResults.push(tableResult) and the INSERT queries of a table
\* with differences; the loop moves to the next table
Complete(result, error) ==
  /\ tableResults' = Append(tableResults, result)
  /\ tableErrors' = Append(tableErrors, error)
  /\ insertQueries' = insertQueries \o
       (IF result.hasDifferences
        THEN generateInsertQueries(result.tableName, result) ELSE <<>>)
  /\ tableIdx' = tableIdx + 1
  /\ pc' = "loop"
  /\ UNCHANGED commonTables

\* the result compareTableData returns from its catch block keeps the
\* differences of the failed attempt
CaughtResultKeepsRows(tableName, total, rows) ==
  [EmptyResult(tableName) EXCEPT !.totalCloudRecords = total,
                                 !.missingInEdge = rows,
                                 !.hasDifferences = (Len(rows) > 0)]

\* the result compareTableData returns from its catch block: the initial
\* result, with the cloud total when the cloud rows had been read
CaughtResult(tableName, total, rows) ==
  [EmptyResult(tableName) EXCEPT !.totalCloudRecords = total]

\* the catch block of compareTableData.  The paginated variant calls itself
\* again with a smaller batch when the message mentions a timeout; otherwise
\* the initial result is returned.
Catch(what, error) ==
  IF variant = "DataComparatorPaginated" /\ error = "timeout"
  THEN /\ batchOption' = RetryBatchSize(batchOption)
       /\ ResetTable /\ ResetPage
       /\ pc' = "pk"
       /\ event' = Event(what, error, EffectiveBatchSize(batchOption))
       /\ UNCHANGED loopVars
  ELSE /\ Complete(CaughtResult(CurrentTable, totalCloud, cloudRows), error)
       /\ event' = Event(what, error, EffectiveBatchSize(batchOption))
       /\ UNCHANGED <<tableVars, pageVars>>

\* for (const tableName of commonTables), at least one side live
BeginTable ==
  /\ pc = "loop"
  /\ tableIdx <= Len(commonTables)
  /\ ~BothDumps
  /\ batchOption' = options.batchSize
  /\ ResetTable /\ ResetPage
  /\ pc' = "pk"
  /\ event' = Event("beginTable", "", 0)
  /\ UNCHANGED <<dataRest, envVars, clientVars, runVars, loopVars, failures>>

\* for (const tableName of commonTables), both sides dumps
CompareDumpTable ==
  /\ pc = "loop"
  /\ tableIdx <= Len(commonTables)
  /\ BothDumps
  /\ LET c == DumpRecords("cloud", CurrentTable)
         e == DumpRecords("edge", CurrentTable)
     IN /\ Complete(compareDumpTableData(CurrentTable, c, e), "")
        /\ pkColumns' = DumpKeyColumns(c, e)
        /\ event' = Event(IF DumpKeyColumns(c, e) = <<>> THEN "skipped" ELSE "compared", "", 0)
  /\ UNCHANGED <<dataRest, envVars, clientVars, runVars, batchOption, cloudRows, edgeRows,
                 totalCloud, pageVars, failures>>

\* return results
ReturnResults ==
  /\ pc = "loop"
  /\ tableIdx > Len(commonTables)
  /\ outcome' = "returned"
  /\ pc' = "finally"
  /\ event' = Event("returned", "", 0)
  /\ UNCHANGED <<dataRest, envVars, clientVars, run, options, loopVars, tableVars, pageVars, failures>>

\* a query of compareTableData reaches the server
Answers(side) ==
  Usable(ClientOf(side)) /\ HasTableNamed(side, CurrentTable)

\* the sample record of the dump-only branch of compareTableData
SampleColumns ==
  LET c == DumpRecords("cloud", CurrentTable)
      e == DumpRecords("edge", CurrentTable)
  IN DumpKeyColumns(c, e)

\* compareTableData: the key columns, and the early return when there are none
ResolveKeys ==
  /\ pc = "pk"
  /\ IF cloudClient # 0 /\ ~Answers("cloud")
     THEN Catch("queryFailed", "other")
     ELSE LET cols == IF cloudClient # 0 THEN TableOf("cloud", CurrentTable).pk
                      ELSE SampleColumns
          IN IF Len(cols) = 0
             THEN /\ Complete(EmptyResult(CurrentTable), "")
                  /\ event' = Event("skipped", "", 0)
                  /\ UNCHANGED <<tableVars, pageVars>>
             ELSE /\ pkColumns' = cols
                  /\ pc' = "cols"
                  /\ event' = Event("keys", "", 0)
                  /\ UNCHANGED <<loopVars, batchOption, cloudRows, edgeRows,
                                 totalCloud, pageVars>>
  /\ UNCHANGED <<dataRest, envVars, clientVars, runVars, failures>>

\* compareTableData: getTableColumns, only with a cloud client
GetColumns ==
  /\ pc = "cols"
  /\ IF cloudClient # 0 /\ ~Answers("cloud")
     THEN Catch("queryFailed", "other")
     ELSE /\ pc' = "cloudRows"
          /\ event' = Event("columns", "", 0)
          /\ UNCHANGED <<loopVars, tableVars, pageVars>>
  /\ UNCHANGED <<dataRest, envVars, clientVars, runVars, failures>>

RowsSide == IF pc = "cloudRows" THEN "cloud" ELSE "edge"

\* cloudRows = ...; result.totalCloudRecords = cloudRows.length (and the edge likewise)
Deliver(side, rows) ==
  IF side = "cloud"
  THEN /\ cloudRows' = rows /\ totalCloud' = Len(rows) /\ pc' = "edgeRows"
       /\ UNCHANGED <<batchOption, pkColumns, edgeRows>>
  ELSE /\ edgeRows' = rows /\ pc' = "reconcile"
       /\ UNCHANGED <<batchOption, pkColumns, cloudRows, totalCloud>>

\* compareTableData: the rows of one side, from the dump, from one SELECT, or
\* by entering getTableDataWithPagination
ReadRows ==
  /\ pc \in {"cloudRows", "edgeRows"}
  /\ IF IsDump(RowsSide)
     THEN /\ Deliver(RowsSide, DumpRecords(RowsSide, CurrentTable))
          /\ event' = Event("rows", "", 0)
          /\ UNCHANGED <<loopVars, pageVars>>
     ELSE IF variant = "DataComparatorPaginated"
     THEN /\ pageSide' = RowsSide /\ offset' = 0 /\ allRows' = <<>>
          /\ retryCount' = 0 /\ queryLog' = <<>>
          /\ pc' = "fetch"
          /\ event' = Event("paginate", "", EffectiveBatchSize(batchOption))
          /\ UNCHANGED <<loopVars, tableVars>>
     ELSE IF Answers(RowsSide)
     THEN /\ Deliver(RowsSide, TableOf(RowsSide, CurrentTable).rows)
          /\ event' = Event("rows", "", 0)
          /\ UNCHANGED <<loopVars, pageVars>>
     ELSE Catch("queryFailed", "other")
  /\ UNCHANGED <<dataRest, envVars, clientVars, runVars, failures>>

\* a query of compareTableData outside the pagination fails
QueryFails ==
  /\ \/ pc \in {"pk", "cols"} /\ cloudClient # 0 /\ Answers("cloud")
     \/ /\ pc \in {"cloudRows", "edgeRows"}
        /\ ~IsDump(RowsSide) /\ variant = "DataComparator" /\ Answers(RowsSide)
  /\ failures < MaxFailures
  /\ failures' = failures + 1
  /\ \E error \in {"timeout", "other"} : Catch("queryFailed", error)
  /\ UNCHANGED <<dataRest, envVars, clientVars, runVars>>

\* the differences of the table are computed and the result is returned
ReconcileTable ==
  /\ pc = "reconcile"
  /\ Complete(Reconcile(CurrentTable, cloudRows, edgeRows, pkColumns), "")
  /\ event' = Event("compared", "", 0)
  /\ UNCHANGED <<dataRest, envVars, clientVars, runVars, tableVars, pageVars, failures>>


(***************************************************************************)
(* getTableDataWithPagination: one query attempt per step.                 *)
(***************************************************************************)
Query(limit, off, ok, returned) ==
  [limit |-> limit, offset |-> off, ok |-> ok, returned |-> returned]

\* hasMoreData as long as the batch is not empty
HasMoreDataWhileNonEmpty(batchLength, batchSize) == batchLength > 0

\* hasMoreData = batchData.length === batchSize, FALSE for an empty batch
HasMoreData(batchLength, batchSize) == batchLength > 0 /\ batchLength = batchSize

\* the query of the current offset succeeds
FetchBatch ==
  /\ pc = "fetch"
  /\ Answers(pageSide)
  /\ LET batchSize == EffectiveBatchSize(batchOption)
         batchData == BatchOf(TableOf(pageSide, CurrentTable).rows, batchSize, offset)
         rows      == allRows \o batchData
     IN /\ queryLog' = Append(queryLog, Query(batchSize, offset, TRUE, Len(batchData)))
        /\ allRows' = rows
        /\ offset' = IF Len(batchData) > 0 THEN offset + batchSize ELSE offset
        /\ retryCount' = 0
        /\ UNCHANGED pageSide
        /\ IF HasMoreData(Len(batchData), batchSize)
           THEN /\ UNCHANGED <<pc, tableVars>>
                /\ event' = Event("batch", "", batchSize)
           ELSE /\ Deliver(pageSide, rows)
                /\ event' = Event("fetched", "", batchSize)
  /\ UNCHANGED <<dataRest, envVars, clientVars, runVars, loopVars, failures>>

\* the query of the current offset fails: another attempt, or the throw that
\* compareTableData catches once maxRetries attempts have failed
FetchFails ==
  /\ pc = "fetch"
  /\ \E error \in {"timeout", "other"} :
       /\ IF Answers(pageSide)
          THEN failures < MaxFailures /\ failures' = failures + 1
          ELSE error = "other" /\ UNCHANGED failures
       /\ IF retryCount + 1 >= EffectiveMaxRetries(options.maxRetries)
          THEN Catch("exhausted", error)
          ELSE /\ retryCount' = retryCount + 1
               /\ queryLog' = Append(queryLog,
                    Query(EffectiveBatchSize(batchOption), offset, FALSE, 0))
               /\ event' = Event("fetchFailed", error, EffectiveBatchSize(batchOption))
               /\ UNCHANGED <<pc, pageSide, offset, allRows, loopVars, tableVars>>
  /\ UNCHANGED <<dataRest, envVars, clientVars, runVars>>

(***************************************************************************)
(* finally: the held clients are ended.                                    *)
(***************************************************************************)
EndClient(cs, c) == IF c = 0 THEN cs ELSE [cs EXCEPT ![c].ended = @ + 1]

\* only the cloud client is ended
EndClientsCloudOnly(cs, c, e) == EndClient(cs, c)

\* if (this.cloudClient) end(); if (this.edgeClient) end()
EndClients(cs, c, e) == EndClient(EndClient(cs, c), e)

Finally ==
  /\ pc = "finally"
  /\ clients' = EndClients(clients, cloudClient, edgeClient)
  /\ pc' = "idle"
  /\ event' = Event("closed", "", 0)
  /\ UNCHANGED <<dataRest, envVars, cloudClient, edgeClient, runVars, loopVars, tableVars,
                 pageVars, failures>>

(***************************************************************************)
(* The sides and the invocations of the data model.                        *)
(***************************************************************************)
UsersRow(i, n) == Rec(<<"id", "name">>, [id |-> Num(i), name |-> Str(n)])

\* a table without an id column
LogRow(i) == Rec(<<"at", "msg">>, [at |-> Num(i), msg |-> Null])

\* a row of a table with a two-column text key
MemberRow(org, code) ==
  Rec(<<"org", "code">>, [org |-> Str(org), code |-> Str(code)])

Table(n, pk, rows) == [name |-> n, pk |-> pk, rows |-> rows]

\* the first n users in key order
UsersPrefix(n) == [i \in 1..n |-> UsersRow(i, "u")]

Call(cloudDump, edgeDump, batchSize, maxRetries) ==
  [cloudDump |-> cloudDump, edgeDump |-> edgeDump,
   batchSize |-> batchSize, maxRetries |-> maxRetries]

BatchSizes == {0, 1, 2, 3, MinRetryBatchSize}
RetryChoices == {0, 1, 2}
EdgeSizes == {0, 2}

\* both sides live, one table, every batch size: the pagination
PagedInit ==
  \E n \in 0..MaxRows, m \in EdgeSizes, b \in BatchSizes, r \in RetryChoices :
    /\ variant = "DataComparatorPaginated"
    /\ content = [cloud |-> <<Table("users", <<"id">>, UsersPrefix(n))>>,
                  edge  |-> <<Table("users", <<"id">>, UsersPrefix(m))>>]
    /\ calls = <<Call(FALSE, FALSE, b, r)>>

Contents ==
  { [cloud |-> <<Table("logs", <<>>, <<LogRow(1)>>),
                 Table("users", <<"id">>, UsersPrefix(2))>>,
     edge  |-> <<Table("logs", <<>>, <<>>),
                 Table("users", <<"id">>, UsersPrefix(1))>>],
    [cloud |-> <<Table("users", <<>>, UsersPrefix(1))>>,
     edge  |-> <<Table("logs", <<"at">>, <<LogRow(1)>>),
                 Table("users", <<>>, <<>>)>>],
    [cloud |-> <<Table("logs", <<"at">>, <<LogRow(1), LogRow(2)>>),
                 Table("users", <<"id">>, <<>>)>>,
     edge  |-> <<Table("logs", <<"at">>, <<LogRow(2)>>),
                 Table("users", <<"id">>, <<UsersRow(1, "v")>>)>>],
    [cloud |-> <<Table("users", <<>>, <<>>)>>,
     edge  |-> <<Table("users", <<>>, <<>>)>>],
    [cloud |-> <<Table("users", <<"org", "code">>, <<MemberRow("a|b", "c"), MemberRow("a", "b")>>)>>,
     edge  |-> <<Table("users", <<"org", "code">>, <<MemberRow("a", "b|c"), MemberRow("a", "b")>>)>>] }

Modes == {Call(c, e, 0, 1) : c \in BOOLEAN, e \in BOOLEAN}

RECURSIVE CallPlans(_)
CallPlans(n) ==
  IF n = 0 THEN {<<>>}
  ELSE LET shorter == CallPlans(n - 1)
       IN shorter \cup {Append(p, m) : p \in {q \in shorter : Len(q) = n - 1}, m \in Modes}

\* every mix of live and dump sides, one invocation after another
ModesInit ==
  \E v \in {"DataComparator", "DataComparatorPaginated"}, c \in Contents,
     plan \in CallPlans(MaxRuns) \ {<<>>} :
    /\ variant = v /\ content = c /\ calls = plan

\* compareDatabases of the two DatabaseComparator definitions
SchemaRunsInit ==
  \E v \in {"DatabaseComparator", "DatabaseComparatorLegacy"},
     plan \in CallPlans(MaxRuns) \ {<<>>} :
    /\ variant = v
    /\ content = [cloud |-> <<>>, edge |-> <<>>]
    /\ calls = plan

\* the records a dump may hold for one table: repeated ids, rows that differ
\* outside the key, a row without id
DumpRows == {UsersRow(1, "u"), UsersRow(1, "v"), UsersRow(2, "u"), LogRow(1)}

RECURSIVE RowLists(_)
RowLists(n) ==
  IF n = 0 THEN {<<>>}
  ELSE LET shorter == RowLists(n - 1)
       IN shorter \cup {Append(l, r) : l \in {q \in shorter : Len(q) = n - 1}, r \in DumpRows}

\* two dumps of one table, every pair of record lists
DumpsInit ==
  \E c \in RowLists(MaxDumpRows), e \in RowLists(MaxDumpRows) :
    /\ variant = "DataComparator"
    /\ content = [cloud |-> <<Table("users", <<>>, c)>>,
                  edge  |-> <<Table("users", <<>>, e)>>]
    /\ calls = <<Call(TRUE, TRUE, 0, 0)>>

EmptySnapshot == SnapshotOf("live", <<>>)

\* the data model does not call the schema comparison
SchemaUnused ==
  /\ SchemaIdle
  /\ sourceSchema = EmptySnapshot
  /\ targetSchema = EmptySnapshot

InitData ==
  /\ SchemaUnused
  /\ ExecIdle
  /\ FilterIdle
  /\ ConnIdle
  /\ ParseIdle
  /\ SqlIdle
  /\ Constructed
  /\ PagedInit \/ ModesInit \/ SchemaRunsInit \/ DumpsInit

NextData ==
  \/ StartRun
  \/ OpenSource
  \/ OpenSourceFails
  \/ IntrospectSchema
  \/ IntrospectSchemaFails
  \/ CompareSnapshots
  \/ FindCommonTables
  \/ CommonTablesQueryFails
  \/ BeginTable
  \/ CompareDumpTable
  \/ ReturnResults
  \/ ResolveKeys
  \/ GetColumns
  \/ ReadRows
  \/ QueryFails
  \/ ReconcileTable
  \/ FetchBatch
  \/ FetchFails
  \/ Finally

SpecData == InitData /\ [][NextData]_vars


(***************************************************************************)
(* Claims about the data comparison.                                       *)
(***************************************************************************)
\* the successful queries of the pagination log
Succeeded(log) == SelectSeq(log, LAMBDA q : q.ok)

\* the table whose rows the pagination is reading
PagedRows == TableOf(pageSide, CurrentTable).rows

RowsDelivered == IF pageSide = "cloud" THEN cloudRows ELSE edgeRows

\* the queries of a failure-free extraction of n rows
RECURSIVE PageQueries(_, _, _)
PageQueries(n, batchSize, off) ==
  LET returned == Max(0, Min(batchSize, n - off))
  IN <<Query(batchSize, off, TRUE, returned)>> \o
     (IF HasMoreData(returned, batchSize)
      THEN PageQueries(n, batchSize, off + batchSize) ELSE <<>>)

\* C5: when getTableDataWithPagination returns for a table of N rows with
\* batch size B, its successful queries are LIMIT B at offsets 0, B, 2B, ...
\* in that order, every batch but the last returned B rows and the last one
\* fewer, and the rows returned are the N rows of the table in order, each
\* once; a table of 25000 rows with B = 10000 takes exactly 3 fetches.
C5_PaginationOffsets ==
  /\ event.kind = "fetched" =>
       LET ok == Succeeded(queryLog)
           B  == IF batchOption = 0 THEN 10000 ELSE batchOption
           N  == Len(PagedRows)
       IN /\ Len(ok) = (N \div B) + 1
          /\ \A i \in 1..Len(ok) :
               /\ ok[i].limit = B
               /\ ok[i].offset = (i - 1) * B
               /\ i < Len(ok) => ok[i].returned = B
               /\ i = Len(ok) => ok[i].returned < B
          /\ allRows = PagedRows
          /\ RowsDelivered = PagedRows
  /\ LET q == PageQueries(25000, 10000, 0)
     IN /\ Len(q) = 3
        /\ [i \in 1..3 |-> q[i].offset] = <<0, 10000, 20000>>
        /\ [i \in 1..3 |-> q[i].returned] = <<10000, 10000, 5000>>

\* 5 rows in batches of 2: three fetches returning 2, 2 and 1 rows
C5_Witness ==
  /\ event.kind = "fetched"
  /\ pageSide = "cloud"
  /\ Len(queryLog) = 3
  /\ [i \in 1..3 |-> queryLog[i].returned] = <<2, 2, 1>>
  /\ Len(cloudRows) = 5

\* C6: a failed attempt is followed by an attempt with the same LIMIT and
\* OFFSET, and a failure that leaves fewer than maxRetries consecutive
\* failures changes neither the batch size nor the offset nor the rows
\* accumulated, and does not end the extraction.
C6_RetryKeepsBatch ==
  /\ [](\A i \in 1..(Len(queryLog) - 1) :
          ~queryLog[i].ok =>
             /\ queryLog[i + 1].limit = queryLog[i].limit
             /\ queryLog[i + 1].offset = queryLog[i].offset)
  /\ [][(/\ pc = "fetch"
         /\ failures' = failures + 1
         /\ retryCount + 1 < (IF options.maxRetries = 0 THEN 3 ELSE options.maxRetries))
        => /\ pc' = "fetch"
           /\ offset' = offset
           /\ batchOption' = batchOption
           /\ allRows' = allRows
           /\ tableIdx' = tableIdx
           /\ Len(queryLog') = Len(queryLog) + 1]_vars

\* with maxRetries 3 the second batch failed twice and succeeded the third
\* time, at the same offset and with the batch size asked for
C6_Witness ==
  /\ pc = "fetch"
  /\ options.maxRetries = 0 /\ options.batchSize = 2 /\ batchOption = 2
  /\ Len(queryLog) = 4
  /\ [i \in 1..4 |-> queryLog[i].ok] = <<TRUE, FALSE, FALSE, TRUE>>
  /\ [i \in 1..4 |-> queryLog[i].offset] = <<0, 2, 2, 2>>
  /\ Len(allRows) = 4

Halved(new, old) == 2 * new = old \/ 2 * new + 1 = old

FailureFreeResult(t) ==
  IF BothDumps
  THEN compareDumpTableData(t, DumpRecords("cloud", t), DumpRecords("edge", t))
  ELSE IF TableOf("cloud", t).pk = <<>> THEN EmptyResult(t)
  ELSE Reconcile(t, TableOf("cloud", t).rows, TableOf("edge", t).rows,
                 TableOf("cloud", t).pk)

QueriesFor(t) == SelectSeq(insertQueries, LAMBDA q : q.tableName = t)

\* C8: an error inside one table's comparison does not make compareData
\* throw; the results hold one tableResult per common table in order, the
\* failing table's has no differences and no INSERT query, and every other
\* table's result and queries are those of a failure-free comparison.
C8_TableErrorsAreLocal ==
  IsDataRun =>
    /\ Len(tableErrors) = Len(tableResults)
    /\ outcome = "returned" => Len(tableResults) = Len(commonTables)
    /\ outcome = "threw" => tableResults = <<>>
    /\ \A i \in 1..Len(tableResults) :
         /\ tableResults[i].tableName = commonTables[i]
         /\ IF tableErrors[i] # ""
            THEN /\ ~tableResults[i].hasDifferences
                 /\ tableResults[i].missingInCloud = <<>>
                 /\ tableResults[i].missingInEdge = <<>>
                 /\ QueriesFor(commonTables[i]) = <<>>
            ELSE /\ tableResults[i] = FailureFreeResult(commonTables[i])
                 /\ Len(QueriesFor(commonTables[i])) =
                      (IF tableResults[i].missingInEdge # <<>> THEN 1 ELSE 0)
                      + (IF tableResults[i].missingInCloud # <<>> THEN 1 ELSE 0)

\* compareData returned two results: the first table failed after its cloud
\* rows had been read, the second was compared and has differences
C8_Witness ==
  /\ outcome = "returned"
  /\ Len(tableResults) = 2
  /\ tableErrors[1] # "" /\ tableResults[1].totalCloudRecords > 0
  /\ tableErrors[2] = "" /\ tableResults[2].hasDifferences
  /\ insertQueries # <<>>

\* C9: once compareData or compareDatabases has exited, by return or by
\* throw, end() has been called on every connection opened during it.
C9_ConnectionsEnded ==
  (pc = "idle" /\ run > 0) =>
    \A c \in 1..Len(clients) :
      (clients[c].run = run /\ clients[c].connected) => clients[c].ended > 0

\* the invocation threw with both connections open, and both were ended
C9_Witness ==
  /\ pc = "idle" /\ outcome = "threw"
  /\ \E c, e \in 1..Len(clients) :
       /\ clients[c].run = run /\ clients[c].side = "cloud" /\ clients[c].connected
       /\ clients[e].run = run /\ clients[e].side = "edge" /\ clients[e].connected
       /\ clients[c].ended > 0 /\ clients[e].ended > 0

\* a decision about the key columns of a table has just been taken
KeysDecided == event.kind \in {"keys", "skipped"} \/ (event.kind = "compared" /\ BothDumps)

Skipped == event.kind = "skipped"

DecidedTable == IF event.kind = "keys" THEN CurrentTable ELSE commonTables[tableIdx - 1]

\* the first record of the table on the cloud side, else on the edge side
SampleOf(t) ==
  LET c == TableOf("cloud", t).rows
      e == TableOf("edge", t).rows
  IN IF c # <<>> THEN <<c[1]>> ELSE IF e # <<>> THEN <<e[1]>> ELSE <<>>

SampleKeys(sample) ==
  IF sample = <<>> THEN <<>>
  ELSE IF "id" \in Range(sample[1].keys) THEN <<"id">> ELSE sample[1].keys

\* C10 as stated: the introspected primary key when a live side gives one,
\* otherwise ["id"] or all columns of a sampled record; skipped only when
\* neither side holds a record.
C10_KeysFallBackToSample ==
  KeysDecided =>
    LET t == DecidedTable
        introspected == IF BothDumps THEN <<>> ELSE TableOf("cloud", t).pk
        claimed == IF introspected # <<>> THEN introspected ELSE SampleKeys(SampleOf(t))
    IN IF Skipped THEN SampleOf(t) = <<>> ELSE pkColumns = claimed

\* C10 amended: unless both sides are dumps a cloud connection is held, the
\* key columns are the introspected primary key and the table is skipped
\* when there is none; between two dumps they are ["id"] or all columns of the first cloud record, else of the
\* first edge record, and the table is skipped when neither holds a record.
C10_KeysByIntrospectionOrSample ==
  KeysDecided =>
    LET t == DecidedTable
        resolved == IF BothDumps THEN SampleKeys(SampleOf(t))
                    ELSE TableOf("cloud", t).pk
    IN /\ ~BothDumps => cloudClient # 0
       /\ Skipped <=> resolved = <<>>
       /\ ~Skipped => pkColumns = resolved

\* a live table without primary key is skipped although it holds a record
\* with an id
C10_Witness ==
  /\ Skipped /\ ~BothDumps
  /\ SampleKeys(SampleOf(DecidedTable)) = <<"id">>


\* the result of the table just compared, and the rows it was computed from
LastResult == tableResults[tableIdx - 1]

RowsOn(side) == TableOf(side, LastResult.tableName).rows

RecordKeys(rows) == {createRecordKey(rows[i], pkColumns) : i \in 1..Len(rows)}

\* list holds one record of rows per key of keys, and nothing else
OnePerKey(list, rows, keys) ==
  /\ RecordKeys(list) = keys
  /\ Len(list) = Cardinality(keys)
  /\ Range(list) \subseteq Range(rows)

\* C11: after a table is compared, missingInEdge holds one cloud record per
\* RecordKey that no edge record has, missingInCloud one edge record per
\* RecordKey that no cloud record has, and hasDifferences tells whether one
\* of the lists is non-empty; a key present on both sides is in neither list.
C11_MissingByRecordKey ==
  event.kind = "compared" =>
    LET r == LastResult
        cKeys == RecordKeys(RowsOn("cloud"))
        eKeys == RecordKeys(RowsOn("edge"))
    IN /\ OnePerKey(r.missingInEdge, RowsOn("cloud"), cKeys \ eKeys)
       /\ OnePerKey(r.missingInCloud, RowsOn("edge"), eKeys \ cKeys)
       /\ r.hasDifferences <=> (r.missingInEdge # <<>> \/ r.missingInCloud # <<>>)
       /\ r.totalCloudRecords = Len(RowsOn("cloud"))
       /\ r.totalEdgeRecords = Len(RowsOn("edge"))

\* id 1 is on both sides with different names and id 2 only in the cloud:
\* only the record of id 2 is reported
C11_Witness ==
  /\ event.kind = "compared"
  /\ RowsOn("cloud") = <<UsersRow(1, "u"), UsersRow(2, "u")>>
  /\ RowsOn("edge") = <<UsersRow(1, "v"), UsersRow(1, "u")>>
  /\ LastResult.missingInEdge = <<UsersRow(2, "u")>>
  /\ LastResult.missingInCloud = <<>>


\* C12: compareData with one side a dump and the other live, and no failure
\* of a connection, a parse or a query, returns one tableResult per table
\* that both sides hold.
C12_MixedModeReturns ==
  (/\ IsDataRun /\ pc = "idle" /\ run > 0 /\ failures = 0
   /\ options.cloudDump # options.edgeDump)
  => /\ outcome = "returned"
     /\ Len(tableResults) = Len(DumpCommonTables)


\* C19: a compareSchemas or compareTable call that returns leaves both input
\* snapshots as they were, the order of every primaryKeys list included.
C19_InputsUnchanged ==
  [][(/\ schemaPc = "ready"
      /\ \/ schemaPc' = "compared" /\ comparison'.status = "returned"
         \/ schemaPc' = "tableCompared" /\ tableDiff'.status = "returned")
     => (sourceSchema' = sourceSchema /\ targetSchema' = targetSchema)]_vars


\* the catch block has just restarted the table after a batch ran out of attempts
Restarted == event.kind = "exhausted" /\ pc = "pk"

\* C20: every restart of a table uses a batch size strictly smaller than the
\* one whose fetch failed, so the restarts of a table come to an end.
C20_RestartShrinksBatch ==
  Restarted => EffectiveBatchSize(batchOption) < event.batch

\* a batch of 1000 timed out and the table is restarted with 1000 again
C20_SameBatchAgain ==
  Restarted /\ event.batch = MinRetryBatchSize /\ batchOption = MinRetryBatchSize


\* C21: an invocation never calls end() (or anything else) on a connection that
\* an earlier invocation on the same instance opened: the Client objects of
\* earlier invocations are left as that invocation's finally block left them.
C21_EarlierHandlesUntouched ==
  [][\A c \in 1..Len(clients) : clients[c].run < run => clients'[c] = clients[c]]_vars

\* a run on two dumps, after a live run, has ended the live run's client again
C21_StaleClientEndedAgain ==
  /\ run = 2 /\ pc = "idle" /\ BothDumps
  /\ \E c \in 1..Len(clients) : clients[c].run = 1 /\ clients[c].ended = 2


(***************************************************************************)
(* Executing generated SQL.                                                *)
(***************************************************************************)
MaxQueries == 2     \* longest query list passed to an execute function

IsDryRunNever == FALSE

\* if (options.dryRun)
IsDryRun == execDryRun

IsInsertOp == execOp \in {"executeInsertQueries", "executeInsertQueriesPaginated"}
IsCreateOp == execOp \in {"executeCreateTableQueries", "executeCreateTableQueriesLegacy"}

\* createTableQueries.filter(q => q.type === 'CREATE_IN_EDGE' / 'CREATE_IN_CLOUD')
CreateType(side) == IF side = "edge" THEN "CREATE_IN_EDGE" ELSE "CREATE_IN_CLOUD"

SideQueries(side) ==
  SelectSeq(execQueries, LAMBDA q : q.type = CreateType(side))

\* the queries the loop of a side runs over: if (queries.length > 0 && url)
Pending(side) ==
  IF side = "target" THEN execQueries
  ELSE IF Len(SideQueries(side)) > 0 /\ execUrls[side] THEN SideQueries(side)
  ELSE <<>>

Position(side, idx) == [side |-> side, idx |-> idx]

\* the first query executeCreateTableQueries works on: Edge first, then Cloud
CreateStart ==
  IF Pending("edge") # <<>> THEN Position("edge", 1)
  ELSE IF Pending("cloud") # <<>> THEN Position("cloud", 1)
  ELSE Position("none", 0)

\* the query after the current one
After(side, idx) ==
  IF idx < Len(Pending(side)) THEN Position(side, idx + 1)
  ELSE IF side = "edge" /\ Pending("cloud") # <<>> THEN Position("cloud", 1)
  ELSE Position("none", 0)

CurrentQuery == Pending(execSide)[execIdx]

ExecClient(side, connected, ended) ==
  [side |-> side, connected |-> connected, ended |-> ended]

\* results.success++
Succeed(results, side) ==
  [results EXCEPT ![side].success = @ + 1]

\* results.failed++; results.errors.push(...)
Fail(results, side, tableName) ==
  [results EXCEPT ![side].failed = @ + 1, ![side].errors = Append(@, tableName)]

Issue(side, tableName) == [side |-> side, tableName |-> tableName]

\* the loop moves on; after the last query the function is about to return
Advance ==
  LET next == After(execSide, execIdx)
  IN /\ execSide' = next.side
     /\ execIdx' = next.idx
     /\ IF next.side = "none"
        THEN /\ execPc' = IF IsInsertOp THEN "finally" ELSE "done"
             /\ execOutcome' = "returned"
        ELSE /\ execPc' = "loop"
             /\ UNCHANGED execOutcome

\* executeInsertQueries: the client connects; with dryRun the function returns
\* results before the loop
ExecuteInsertConnect ==
  /\ execPc = "ready" /\ IsInsertOp
  /\ execClients' = Append(execClients, ExecClient("target", TRUE, FALSE))
  /\ IF IsDryRun \/ execQueries = <<>>
     THEN /\ execPc' = "finally" /\ execOutcome' = "returned"
          /\ UNCHANGED <<execSide, execIdx>>
     ELSE /\ execPc' = "loop" /\ execSide' = "target" /\ execIdx' = 1
          /\ UNCHANGED execOutcome
  /\ UNCHANGED <<execRest, execOp, execQueries, execUrls, execDryRun, execResults,
                 execIssued, execFailures>>

\* the connection is refused: the catch rethrows.  createClient has ended
\* the clients it tried; dataComparator.js leaves that to its finally
ExecuteInsertConnectFails ==
  /\ execPc = "ready" /\ IsInsertOp
  /\ execFailures < MaxFailures
  /\ execFailures' = execFailures + 1
  /\ execClients' = Append(execClients,
        ExecClient("target", FALSE, execOp = "executeInsertQueriesPaginated"))
  /\ execPc' = "finally" /\ execOutcome' = "threw"
  /\ UNCHANGED <<execRest, execOp, execQueries, execUrls, execDryRun, execSide, execIdx,
                 execResults, execIssued>>

\* await client.query(queryInfo.query) succeeds
ExecuteInsertQuery ==
  /\ execPc = "loop" /\ IsInsertOp
  /\ execIssued' = Append(execIssued, Issue("target", CurrentQuery.tableName))
  /\ execResults' = Succeed(execResults, "target")
  /\ Advance
  /\ UNCHANGED <<execRest, execOp, execQueries, execUrls, execDryRun, execClients,
                 execFailures>>

\* the query is rejected: counted, and the loop goes on
ExecuteInsertQueryFails ==
  /\ execPc = "loop" /\ IsInsertOp
  /\ execFailures < MaxFailures
  /\ execFailures' = execFailures + 1
  /\ execIssued' = Append(execIssued, Issue("target", CurrentQuery.tableName))
  /\ execResults' = Fail(execResults, "target", CurrentQuery.tableName)
  /\ Advance
  /\ UNCHANGED <<execRest, execOp, execQueries, execUrls, execDryRun, execClients>>

\* finally { await client.end() }: in databaseComparator.js client is declared
\* inside the try block, so the finally block throws a ReferenceError
ExecuteInsertFinally ==
  /\ execPc = "finally" /\ IsInsertOp
  /\ IF execOp = "executeInsertQueries"
     THEN /\ execClients' = [execClients EXCEPT ![Len(execClients)].ended = TRUE]
          /\ UNCHANGED execOutcome
     ELSE /\ execOutcome' = "threw"
          /\ UNCHANGED execClients
  /\ execPc' = "done"
  /\ UNCHANGED <<execRest, execOp, execQueries, execUrls, execDryRun, execSide, execIdx,
                 execResults, execIssued, execFailures>>

\* executeCreateTableQueries: the two filters and the test of the Edge side
ExecuteCreateBegin ==
  /\ execPc = "ready" /\ IsCreateOp
  /\ execSide' = CreateStart.side
  /\ execIdx' = CreateStart.idx
  /\ IF CreateStart.side = "none"
     THEN execPc' = "done" /\ execOutcome' = "returned"
     ELSE execPc' = "loop" /\ UNCHANGED execOutcome
  /\ UNCHANGED <<execRest, execOp, execQueries, execUrls, execDryRun, execResults,
                 execIssued, execClients, execFailures>>

\* one query of the loop: with dryRun it is only counted, otherwise a client
\* is opened, runs query.sql and is ended
ExecuteCreateTable ==
  /\ execPc = "loop" /\ IsCreateOp
  /\ IF IsDryRun
     THEN UNCHANGED <<execClients, execIssued>>
     ELSE /\ execClients' = Append(execClients, ExecClient(execSide, TRUE, TRUE))
          /\ execIssued' = Append(execIssued, Issue(execSide, CurrentQuery.tableName))
  /\ execResults' = Succeed(execResults, execSide)
  /\ Advance
  /\ UNCHANGED <<execRest, execOp, execQueries, execUrls, execDryRun, execFailures>>

\* the connection is refused: createClient has ended what it tried, the
\* Client built in place (databaseComparator.js:1503) is left as it is
ExecuteCreateConnectFails ==
  /\ execPc = "loop" /\ IsCreateOp /\ ~IsDryRun
  /\ execFailures < MaxFailures
  /\ execFailures' = execFailures + 1
  /\ execClients' = Append(execClients,
        ExecClient(execSide, FALSE, execOp = "executeCreateTableQueries"))
  /\ execResults' = Fail(execResults, execSide, CurrentQuery.tableName)
  /\ Advance
  /\ UNCHANGED <<execRest, execOp, execQueries, execUrls, execDryRun, execIssued>>

\* query.sql is rejected: the catch counts it, end() is skipped
ExecuteCreateQueryFails ==
  /\ execPc = "loop" /\ IsCreateOp /\ ~IsDryRun
  /\ execFailures < MaxFailures
  /\ execFailures' = execFailures + 1
  /\ execClients' = Append(execClients, ExecClient(execSide, TRUE, FALSE))
  /\ execIssued' = Append(execIssued, Issue(execSide, CurrentQuery.tableName))
  /\ execResults' = Fail(execResults, execSide, CurrentQuery.tableName)
  /\ Advance
  /\ UNCHANGED <<execRest, execOp, execQueries, execUrls, execDryRun>>

ExecOps ==
  {"executeInsertQueries", "executeInsertQueriesPaginated",
   "executeCreateTableQueries", "executeCreateTableQueriesLegacy"}

QueryTypes(op) ==
  IF op \in {"executeInsertQueries", "executeInsertQueriesPaginated"}
  THEN {"INSERT_TO_EDGE", "INSERT_TO_CLOUD"}
  ELSE {"CREATE_IN_EDGE", "CREATE_IN_CLOUD"}

ExecQuery(type, tableName) == [type |-> type, tableName |-> tableName]

RECURSIVE QueryLists(_, _)
QueryLists(op, n) ==
  IF n = 0 THEN {<<>>}
  ELSE LET shorter == QueryLists(op, n - 1)
       IN shorter \cup
          {Append(l, ExecQuery(t, name)) :
             l \in {q \in shorter : Len(q) = n - 1},
             t \in QueryTypes(op), name \in {"users", "orders"}}

InitExec ==
  /\ SchemaUnused
  /\ DataIdle
  /\ ParseIdle
  /\ SqlIdle
  /\ FilterIdle
  /\ ConnIdle
  /\ \E op \in ExecOps, dry \in BOOLEAN, c \in BOOLEAN, e \in BOOLEAN :
       /\ execOp = op
       /\ execDryRun = dry
       /\ execUrls = [cloud |-> c, edge |-> e]
       /\ execQueries \in QueryLists(op, MaxQueries)
  /\ execPc = "ready" /\ execSide = "none" /\ execIdx = 0
  /\ execResults = [cloud |-> Counters, edge |-> Counters, target |-> Counters]
  /\ execIssued = <<>> /\ execClients = <<>>
  /\ execOutcome = "none" /\ execFailures = 0

NextExec ==
  \/ ExecuteInsertConnect
  \/ ExecuteInsertConnectFails
  \/ ExecuteInsertQuery
  \/ ExecuteInsertQueryFails
  \/ ExecuteInsertFinally
  \/ ExecuteCreateBegin
  \/ ExecuteCreateTable
  \/ ExecuteCreateConnectFails
  \/ ExecuteCreateQueryFails

SpecExec == InitExec /\ [][NextExec]_vars

\* C18: with options.dryRun set, executeInsertQueries and
\* executeCreateTableQueries (every definition of them) make no query() call,
\* whatever the query list, the URLs and the failures of the connections.
C18_DryRunIssuesNothing ==
  execDryRun => execIssued = <<>>

\* a dry run over a non-empty list that has finished
C18_Witness ==
  /\ execDryRun /\ execPc = "done" /\ execQueries # <<>>
  /\ \/ IsInsertOp /\ \E i \in 1..Len(execClients) : execClients[i].connected
     \/ IsCreateOp /\ execResults.edge.success + execResults.cloud.success > 0


(***************************************************************************)
(* Texts: the String methods and regular-expression pieces the parser and  *)
(* the formatter use, on sequences of one-character strings.               *)
(***************************************************************************)
Letters ==
  {"a", "b", "c", "d", "e", "f", "g", "h", "i", "j", "k", "l", "m",
   "n", "o", "p", "q", "r", "s", "t", "u", "v", "w", "x", "y", "z",
   "A", "B", "C", "D", "E", "F", "G", "H", "I", "J", "K", "L", "M",
   "N", "O", "P", "Q", "R", "S", "T", "U", "V", "W", "X", "Y", "Z"}

Digits == {"0", "1", "2", "3", "4", "5", "6", "7", "8", "9"}

\* \w
WordChars == Letters \cup Digits \cup {"_"}

\* \s, as far as dump lines hold it
Spaces == {" ", "\t"}

\* pat occurs in text at position i
MatchesAt(text, pat, i) ==
  /\ i >= 1 /\ i + Len(pat) - 1 <= Len(text)
  /\ SubSeq(text, i, i + Len(pat) - 1) = pat

startsWith(text, pat) == MatchesAt(text, pat, 1)

endsWith(text, pat) == MatchesAt(text, pat, Len(text) - Len(pat) + 1)

\* position of the first occurrence of pat at or after i, 0 when there is none
RECURSIVE IndexFrom(_, _, _)
IndexFrom(text, pat, i) ==
  IF i + Len(pat) - 1 > Len(text) THEN 0
  ELSE IF MatchesAt(text, pat, i) THEN i
  ELSE IndexFrom(text, pat, i + 1)

includes(text, pat) == IndexFrom(text, pat, 1) # 0

\* position of the last occurrence of pat, 0 when there is none
lastIndexOf(text, pat) ==
  LET RECURSIVE Before(_)
      Before(i) == IF i < 1 THEN 0
                   ELSE IF MatchesAt(text, pat, i) THEN i
                   ELSE Before(i - 1)
  IN Before(Len(text) - Len(pat) + 1)

From(text, i) == SubSeq(text, i, Len(text))

\* text.trim()
trim(text) ==
  LET RECURSIVE trimStart(_)
      trimStart(t) == IF t # <<>> /\ t[1] \in Spaces THEN trimStart(Tail(t)) ELSE t
      RECURSIVE trimEnd(_)
      trimEnd(t) == IF t # <<>> /\ t[Len(t)] \in Spaces
                    THEN trimEnd(SubSeq(t, 1, Len(t) - 1)) ELSE t
  IN trimEnd(trimStart(text))

\* text.replace(/pat/g, by) for a literal pat
RECURSIVE replaceAll(_, _, _)
replaceAll(text, pat, by) ==
  LET i == IndexFrom(text, pat, 1)
  IN IF i = 0 THEN text
     ELSE SubSeq(text, 1, i - 1) \o by \o replaceAll(From(text, i + Len(pat)), pat, by)

\* text.split(sep)
RECURSIVE split(_, _)
split(text, sep) ==
  LET i == IndexFrom(text, sep, 1)
  IN IF i = 0 THEN <<text>>
     ELSE <<SubSeq(text, 1, i - 1)>> \o split(From(text, i + Len(sep)), sep)

\* texts.join(sep)
RECURSIVE join(_, _)
join(texts, sep) ==
  IF texts = <<>> THEN <<>>
  ELSE IF Len(texts) = 1 THEN texts[1]
  ELSE texts[1] \o sep \o join(Tail(texts), sep)

\* the last position of the longest run of \w that starts at i; i - 1 when
\* the character at i is not a word character
RECURSIVE WordEnd(_, _)
WordEnd(text, i) ==
  IF i <= Len(text) /\ text[i] \in WordChars THEN WordEnd(text, i + 1) ELSE i - 1

\* the position after the longest run of \s that starts at i
RECURSIVE SkipSpaces(_, _)
SkipSpaces(text, i) ==
  IF i <= Len(text) /\ text[i] \in Spaces THEN SkipSpaces(text, i + 1) ELSE i

(***************************************************************************)
(* JavaScript values with their texts character by character: type is the  *)
(* typeof of the value ("date" for a Date, "null" for null), text its      *)
(* String() or toISOString() text, fields the own keys with their values   *)
(* in Object.keys order (the indices for an array).                        *)
(***************************************************************************)
JsValue(type, text, isArray, fields) ==
  [type |-> type, text |-> text, isArray |-> isArray, fields |-> fields]

JsNull        == JsValue("null", <<>>, FALSE, <<>>)
JsUndefined   == JsValue("undefined", <<>>, FALSE, <<>>)
JsString(t)   == JsValue("string", t, FALSE, <<>>)
JsNumber(t)   == JsValue("number", t, FALSE, <<>>)
JsBoolean(b)  == JsValue("boolean", IF b THEN <<"t", "r", "u", "e">> ELSE <<"f", "a", "l", "s", "e">>, FALSE, <<>>)
JsDate(iso)   == JsValue("date", iso, FALSE, <<>>)
JsObject(fields) == JsValue("object", <<>>, FALSE, fields)

Field(name, value) == [name |-> name, value |-> value]

\* the decimal text of a natural number
RECURSIVE DigitsOf(_)
DigitsOf(n) ==
  LET digit == <<"0", "1", "2", "3", "4", "5", "6", "7", "8", "9">>
  IN IF n < 10 THEN <<digit[n + 1]>>
     ELSE DigitsOf(n \div 10) \o <<digit[(n % 10) + 1]>>

\* an array: its keys are its indices
JsArray(elements) ==
  JsValue("object", <<>>, TRUE,
          [i \in 1..Len(elements) |-> Field(DigitsOf(i - 1), elements[i])])

\* value[name]
FieldOf(value, name) ==
  LET hits == SelectSeq(value.fields, LAMBDA f : f.name = name)
  IN IF hits = <<>> THEN JsUndefined ELSE hits[1].value

\* if (v)
Truthy(v) ==
  CASE v.type \in {"null", "undefined"} -> FALSE
    [] v.type = "boolean" -> v.text = <<"t", "r", "u", "e">>
    [] v.type = "number"  -> v.text \notin {<<"0">>, <<"-", "0">>, <<"N", "a", "N">>}
    [] v.type = "string"  -> v.text # <<>>
    [] OTHER -> TRUE

\* JSON.stringify of an object or array of scalars; an undefined field is
\* left out, an undefined element is null
JSONstringify(value) ==
  LET scalar(v) ==
        CASE v.type = "string" ->
               <<"\"">> \o replaceAll(replaceAll(v.text, <<"\\">>, <<"\\", "\\">>),
                                      <<"\"">>, <<"\\", "\"">>) \o <<"\"">>
          [] v.type \in {"number", "boolean"} -> v.text
          [] v.type = "date" -> <<"\"">> \o v.text \o <<"\"">>
          [] OTHER -> <<"n", "u", "l", "l">>
      kept == SelectSeq(value.fields, LAMBDA f : f.value.type # "undefined")
  IN IF value.isArray
     THEN <<"[">> \o join([i \in 1..Len(value.fields) |-> scalar(value.fields[i].value)],
                       <<",">>) \o <<"]">>
     ELSE <<"{">> \o join([i \in 1..Len(kept) |->
                          <<"\"">> \o kept[i].name \o <<"\"", ":">> \o scalar(kept[i].value)],
                       <<",">>) \o <<"}">>

\* `'${text.replace(/'/g, "''")}'`
Quoted(text) == <<"'">> \o replaceAll(text, <<"'">>, <<"'", "'">>) \o <<"'">>

IntervalUnits == <<<<"y", "e", "a", "r", "s">>, <<"m", "o", "n", "t", "h", "s">>, <<"d", "a", "y", "s">>, <<"h", "o", "u", "r", "s">>, <<"m", "i", "n", "u", "t", "e", "s">>, <<"s", "e", "c", "o", "n", "d", "s">>>>

\* the parts array of the interval branch
IntervalParts(value) ==
  LET present == SelectSeq(IntervalUnits, LAMBDA u : Truthy(FieldOf(value, u)))
  IN [i \in 1..Len(present) |-> FieldOf(value, present[i]).text \o <<" ">> \o present[i]]

IsInterval(value) ==
  \E i \in 1..Len(IntervalUnits) : FieldOf(value, IntervalUnits[i]).type # "undefined"

formatValue(value) ==
  IF value.type \in {"null", "undefined"} THEN <<"N", "U", "L", "L">>
  ELSE IF value.type = "string" THEN Quoted(value.text)
  ELSE IF value.type = "boolean" THEN (IF value.text = <<"t", "r", "u", "e">> THEN <<"T", "R", "U", "E">> ELSE <<"F", "A", "L", "S", "E">>)
  ELSE IF value.type = "date" THEN <<"'">> \o value.text \o <<"'">>
  ELSE IF value.type = "object"
  THEN IF Len(value.fields) = 0 THEN <<"N", "U", "L", "L">>
       ELSE IF IsInterval(value)
       THEN IF IntervalParts(value) = <<>> THEN <<"N", "U", "L", "L">>
            ELSE <<"'">> \o join(IntervalParts(value), <<" ">>) \o <<"'", ":", ":", "i", "n", "t", "e", "r", "v", "a", "l">>
       ELSE Quoted(JSONstringify(value))
  ELSE value.text

\* the objects generateInsertQueries pushes: query is the text of the template
\* INSERT INTO "table" ("c1", "c2") VALUES (v, v), (v, v);
InsertStatements(tableName, tableResult) ==
  LET queries == generateInsertQueries(tableName, tableResult)
      tuple(row) ==
        <<"(">> \o join([j \in 1..Len(row) |-> formatValue(row[j])], <<",", " ">>) \o <<")">>
      text(q) ==
        <<"I", "N", "S", "E", "R", "T", " ", "I", "N", "T", "O", " ", "\"">> \o q.tableName \o <<"\"", " ", "(">>
        \o join([j \in 1..Len(q.columns) |-> <<"\"">> \o q.columns[j] \o <<"\"">>], <<",", " ">>)
        \o <<")", " ", "V", "A", "L", "U", "E", "S", " ">>
        \o join([i \in 1..Len(q.rows) |-> tuple(q.rows[i])], <<",", " ">>)
        \o <<";">>
  IN [i \in 1..Len(queries) |-> queries[i] @@ [query |-> text(queries[i])]]


(***************************************************************************)
(* DumpParser: the INSERT statement parser.                                *)
(***************************************************************************)
\* /^-?\d+(\.\d+)?$/.test(text)
IsNumeric(text) ==
  LET allDigits(t) == t # <<>> /\ \A i \in 1..Len(t) : t[i] \in Digits
      unsigned == IF text # <<>> /\ text[1] = "-" THEN Tail(text) ELSE text
      dot      == IndexFrom(unsigned, <<".">>, 1)
  IN IF dot = 0 THEN allDigits(unsigned)
     ELSE allDigits(SubSeq(unsigned, 1, dot - 1)) /\ allDigits(From(unsigned, dot + 1))

\* String(parseInt(text)) / String(parseFloat(text)) for a text that matches
\* the expression above and is short enough to be exact
NumberText(text) ==
  LET RECURSIVE stripLeading(_)
      stripLeading(d) == IF Len(d) > 1 /\ d[1] = "0" THEN stripLeading(Tail(d)) ELSE d
      RECURSIVE stripTrailing(_)
      stripTrailing(d) == IF d # <<>> /\ d[Len(d)] = "0"
                          THEN stripTrailing(SubSeq(d, 1, Len(d) - 1)) ELSE d
      negative == text[1] = "-"
      unsigned == IF negative THEN Tail(text) ELSE text
      dot      == IndexFrom(unsigned, <<".">>, 1)
      whole    == stripLeading(IF dot = 0 THEN unsigned ELSE SubSeq(unsigned, 1, dot - 1))
      fraction == IF dot = 0 THEN <<>> ELSE stripTrailing(From(unsigned, dot + 1))
      digits   == whole \o (IF fraction = <<>> THEN <<>> ELSE <<".">> \o fraction)
  IN IF negative /\ digits # <<"0">> THEN <<"-">> \o digits ELSE digits

parseValue(value) ==
  IF value = <<"N", "U", "L", "L">> THEN JsNull
  ELSE IF value = <<"T", "R", "U", "E">> THEN JsBoolean(TRUE)
  ELSE IF value = <<"F", "A", "L", "S", "E">> THEN JsBoolean(FALSE)
  ELSE IF \/ startsWith(value, <<"'">>) /\ endsWith(value, <<"'">>)
          \/ startsWith(value, <<"\"">>) /\ endsWith(value, <<"\"">>)
  THEN JsString(replaceAll(replaceAll(SubSeq(value, 2, Len(value) - 1), <<"'", "'">>, <<"'">>),
                           <<"\"", "\"">>, <<"\"">>))
  ELSE IF IsNumeric(value) THEN JsNumber(NumberText(value))
  ELSE JsString(value)

\* parseValues: the loop over the characters between the parentheses
parseValues(valuesString) ==
  LET inner == SubSeq(valuesString, 2, Len(valuesString) - 1)
      RECURSIVE Scan(_, _, _, _)
      Scan(i, current, quoteChar, values) ==
        IF i > Len(inner)
        THEN IF trim(current) # <<>> THEN Append(values, parseValue(trim(current)))
             ELSE values
        ELSE LET char == inner[i]
             IN IF quoteChar = "" /\ char \in {"'", "\""}
                THEN Scan(i + 1, Append(current, char), char, values)
                ELSE IF quoteChar # "" /\ char = quoteChar
                THEN IF i < Len(inner) /\ inner[i + 1] = quoteChar
                     THEN Scan(i + 2, current \o <<char, char>>, quoteChar, values)
                     ELSE Scan(i + 1, Append(current, char), "", values)
                ELSE IF quoteChar = "" /\ char = ","
                THEN Scan(i + 1, <<>>, quoteChar, Append(values, parseValue(trim(current))))
                ELSE Scan(i + 1, Append(current, char), quoteChar, values)
  IN Scan(1, <<>>, "", <<>>)

\* text.match(/\([^)]+\)/g), scanning from position i
RECURSIVE ValueMatches(_, _)
ValueMatches(text, i) ==
  LET open  == IndexFrom(text, <<"(">>, i)
      close == IF open = 0 THEN 0 ELSE IndexFrom(text, <<")">>, open + 1)
  IN IF open = 0 \/ close = 0 THEN <<>>
     ELSE IF close = open + 1 THEN ValueMatches(text, open + 1)
     ELSE <<SubSeq(text, open, close)>> \o ValueMatches(text, close + 1)

NoMatch == [found |-> FALSE]

\* (?:\w+\.)?(\w+) at position i: the name captured and where it ends
QualifiedName(text, i) ==
  LET first  == WordEnd(text, i)
      second == WordEnd(text, first + 2)
  IN IF first < i THEN NoMatch
     ELSE IF first < Len(text) /\ text[first + 1] = "." /\ second >= first + 2
     THEN [found |-> TRUE, qualifier |-> SubSeq(text, i, first),
           name |-> SubSeq(text, first + 2, second), last |-> second]
     ELSE [found |-> TRUE, qualifier |-> <<>>,
           name |-> SubSeq(text, i, first), last |-> first]

\* \(([^)]+)\) at position i: the text captured and where the group ends
Parenthesized(text, i) ==
  LET close == IndexFrom(text, <<")">>, i + 1)
  IN IF ~MatchesAt(text, <<"(">>, i) \/ close <= i + 1 THEN NoMatch
     ELSE [found |-> TRUE, inner |-> SubSeq(text, i + 1, close - 1), last |-> close]

\* statement.match(/INSERT INTO (?:\w+\.)?(\w+) \(([^)]+)\) VALUES (.+);/):
\* the match at the leftmost position, at or after i, where there is one
RECURSIVE InsertMatch(_, _)
InsertMatch(statement, i) ==
  LET at      == IndexFrom(statement, <<"I", "N", "S", "E", "R", "T", " ", "I", "N", "T", "O", " ">>, i)
      name    == QualifiedName(statement, at + Len(<<"I", "N", "S", "E", "R", "T", " ", "I", "N", "T", "O", " ">>))
      columns == IF name.found /\ MatchesAt(statement, <<" ">>, name.last + 1)
                 THEN Parenthesized(statement, name.last + 2) ELSE NoMatch
      values  == IF columns.found THEN columns.last + Len(<<")", " ", "V", "A", "L", "U", "E", "S", " ">>) ELSE 0
      semi    == lastIndexOf(statement, <<";">>)
  IN IF at = 0 THEN NoMatch
     ELSE IF /\ columns.found
             /\ MatchesAt(statement, <<")", " ", "V", "A", "L", "U", "E", "S", " ">>, columns.last)
             /\ semi > values
     THEN [found |-> TRUE, tableName |-> name.name, columnList |-> columns.inner,
           valuesSection |-> SubSeq(statement, values, semi - 1)]
     ELSE InsertMatch(statement, at + 1)

\* list.split(',').map(col => col.trim().replace(/"/g, ''))
ColumnList(list) ==
  LET parts == split(list, <<",">>)
  IN [i \in 1..Len(parts) |-> replaceAll(trim(parts[i]), <<"\"">>, <<>>)]

\* const record = {}; record[columns[i]] = values[i] for each i
RecordOf(columns, values) ==
  LET firsts == SelectSeq([i \in 1..Len(columns) |-> i],
                          LAMBDA i : \A j \in 1..(i - 1) : columns[j] # columns[i])
      last(c) == CHOOSE i \in 1..Len(columns) :
                   columns[i] = c /\ \A j \in (i + 1)..Len(columns) : columns[j] # c
  IN Rec([k \in 1..Len(firsts) |-> columns[firsts[k]]],
         [c \in {columns[i] : i \in 1..Len(columns)} |-> values[last(c)]])

\* the records parseInsertStatement accepts: tuples with one value per column
AcceptedRecords(columns, valuesSection) ==
  LET groups == ValueMatches(valuesSection, 1)
      parsed == [i \in 1..Len(groups) |-> parseValues(groups[i])]
      kept   == SelectSeq(parsed, LAMBDA values : Len(values) = Len(columns))
  IN [i \in 1..Len(kept) |-> RecordOf(columns, kept[i])]

\* this.tables.has(name)
HasDumpTable(parsed, name) == \E i \in 1..Len(parsed) : parsed[i].name = name

\* this.tables after parseInsertStatement(statement)
parseInsertStatement(parsed, statement) ==
  LET match == InsertMatch(statement, 1)
  IN IF ~match.found THEN parsed
     ELSE IF ~HasDumpTable(parsed, match.tableName) THEN parsed
     ELSE [i \in 1..Len(parsed) |->
             IF parsed[i].name = match.tableName
             THEN [parsed[i] EXCEPT !.data =
                     @ \o AcceptedRecords(ColumnList(match.columnList), match.valuesSection)]
             ELSE parsed[i]]


(***************************************************************************)
(* The formatter and the generator applied to bounded inputs, and the      *)
(* generated statements given to the parser.                               *)
(***************************************************************************)
MaxSqlRecords == 2    \* longest missing-record list

DumpTable(name) ==
  [name |-> name, columns |-> <<>>, primaryKeys |-> <<>>, foreignKeys |-> <<>>,
   indexes |-> <<>>, data |-> <<>>]

\* formatValue(sqlValue)
FormatValue ==
  /\ sqlPc = "ready"
  /\ sqlLiteral' = formatValue(sqlValue)
  /\ sqlPc' = "formatted"
  /\ UNCHANGED <<sqlRest, parseVars, sqlValue, sqlInput, sqlQueries>>

\* generateInsertQueries(tableName, tableResult)
GenerateInsertQueries ==
  /\ sqlPc = "ready"
  /\ sqlQueries' = InsertStatements(sqlInput.tableName, sqlInput)
  /\ sqlPc' = "generated"
  /\ UNCHANGED <<sqlRest, parseVars, sqlValue, sqlLiteral, sqlInput>>

RECURSIVE ParseStatements(_, _)
ParseStatements(parsed, queries) ==
  IF queries = <<>> THEN parsed
  ELSE ParseStatements(parseInsertStatement(parsed, queries[1].query), Tail(queries))

\* every generated statement goes through parseInsertStatement
ParseGenerated ==
  /\ sqlPc = "generated"
  /\ dumpTables' = ParseStatements(dumpTables, sqlQueries)
  /\ sqlPc' = "parsedBack"
  /\ UNCHANGED <<sqlRest, dumpLines, lineIdx, currentTable, isInsertSection, insertBuffer,
                 parsePc, sqlValue, sqlLiteral, sqlInput, sqlQueries>>

Hours(n, m) == JsObject(<<Field(<<"h", "o", "u", "r", "s">>, JsNumber(n)), Field(<<"m", "i", "n", "u", "t", "e", "s">>, JsNumber(m))>>)

\* one value, at least, of every branch of formatValue
FormatInputs ==
  {JsNull, JsUndefined, JsBoolean(TRUE), JsBoolean(FALSE),
   JsString(<<>>), JsString(<<"A", "n", "n">>), JsString(<<"O", "'", "B", "r", "i", "e", "n">>), JsString(<<"'", "'">>),
   JsNumber(<<"0">>), JsNumber(<<"4", "2">>), JsNumber(<<"-", "1", ".", "5">>),
   JsDate(<<"2", "0", "2", "4", "-", "0", "1", "-", "0", "2", "T", "0", "3", ":", "0", "4", ":", "0", "5", ".", "0", "0", "0", "Z">>),
   JsObject(<<>>), JsArray(<<>>),
   Hours(<<"5">>, <<"3", "0">>), Hours(<<"0">>, <<"3", "0">>), Hours(<<"0">>, <<"0">>),
   JsObject(<<Field(<<"y", "e", "a", "r", "s">>, JsNull)>>),
   JsObject(<<Field(<<"s", "e", "c", "o", "n", "d", "s">>, JsNumber(<<"7">>)), Field(<<"y", "e", "a", "r", "s">>, JsNumber(<<"1">>)),
              Field(<<"n", "o", "t", "e">>, JsString(<<"x">>))>>),
   JsObject(<<Field(<<"a">>, JsString(<<"i", "t", "'", "s">>)), Field(<<"b">>, JsUndefined)>>),
   JsObject(<<Field(<<"k">>, JsNumber(<<"1">>)), Field(<<"q">>, JsString(<<"\"">>))>>),
   JsArray(<<JsNumber(<<"1">>), JsNull, JsString(<<"a", "'", "b">>)>>),
   JsArray(<<JsNumber(<<"0">>)>>)}

UserRecord(id, name) ==
  Rec(<<<<"i", "d">>, <<"n", "a", "m", "e">>>>, (<<"i", "d">> :> id) @@ (<<"n", "a", "m", "e">> :> name))

\* records of one table; the last has fewer columns than the others
SqlRecords ==
  {UserRecord(JsNumber(<<"1">>), JsString(<<"O", "'", "B", "r", "i", "e", "n">>)),
   UserRecord(JsNumber(<<"2">>), JsNull),
   UserRecord(JsNumber(<<"-", "1", ".", "5">>), JsBoolean(TRUE)),
   Rec(<<<<"n", "a", "m", "e">>>>, (<<"n", "a", "m", "e">> :> JsString(<<"A", "n", "n">>)))}

RECURSIVE RecordLists(_)
RecordLists(n) ==
  IF n = 0 THEN {<<>>}
  ELSE LET shorter == RecordLists(n - 1)
       IN shorter \cup
          {Append(l, r) : l \in {q \in shorter : Len(q) = n - 1}, r \in SqlRecords}

\* a parser that has read CREATE TABLE users and nothing else
UsersDeclared ==
  /\ dumpTables = <<DumpTable(<<"u", "s", "e", "r", "s">>)>>
  /\ currentTable = <<>> /\ isInsertSection = FALSE /\ insertBuffer = <<>>
  /\ dumpLines = <<>> /\ lineIdx = 1 /\ parsePc = "idle"

InitSql ==
  /\ SchemaUnused
  /\ DataIdle
  /\ ExecIdle
  /\ FilterIdle
  /\ ConnIdle
  /\ UsersDeclared
  /\ \/ sqlValue \in FormatInputs /\ sqlInput = [NoTableResult EXCEPT !.tableName = <<"u", "s", "e", "r", "s">>]
     \/ /\ sqlValue = JsUndefined
        /\ \E e \in RecordLists(MaxSqlRecords), c \in RecordLists(MaxSqlRecords) :
             sqlInput = [tableName |-> <<"u", "s", "e", "r", "s">>, missingInEdge |-> e, missingInCloud |-> c]
  /\ sqlLiteral = <<>>
  /\ sqlQueries = <<>>
  /\ sqlPc = "ready"

NextSql ==
  \/ FormatValue
  \/ GenerateInsertQueries
  \/ ParseGenerated

SpecSql == InitSql /\ [][NextSql]_vars


(***************************************************************************)
(* Claims about the formatter, the generator and the INSERT parser.        *)
(***************************************************************************)
\* the case table of the value formatter, with every array JSON-serialized
SpecifiedLiteral(v) ==
  CASE v.type \in {"null", "undefined"} -> <<"N", "U", "L", "L">>
    [] v.type = "boolean" -> IF v.text = <<"t", "r", "u", "e">> THEN <<"T", "R", "U", "E">> ELSE <<"F", "A", "L", "S", "E">>
    [] v.type = "string"  -> Quoted(v.text)
    [] v.type = "date"    -> <<"'">> \o v.text \o <<"'">>
    [] v.type = "object" /\ v.isArray -> Quoted(JSONstringify(v))
    [] v.type = "object" /\ ~v.isArray /\ v.fields = <<>> -> <<"N", "U", "L", "L">>
    [] v.type = "object" /\ ~v.isArray /\ v.fields # <<>> /\ IsInterval(v) ->
         IF IntervalParts(v) = <<>> THEN <<"N", "U", "L", "L">>
         ELSE <<"'">> \o join(IntervalParts(v), <<" ">>) \o <<"'", ":", ":", "i", "n", "t", "e", "r", "v", "a", "l">>
    [] v.type = "object" /\ ~v.isArray /\ v.fields # <<>> /\ ~IsInterval(v) ->
         Quoted(JSONstringify(v))
    [] OTHER -> v.text

\* C16: formatValue returns, for every value, the literal of the case table:
\* NULL, TRUE/FALSE, the quoted string, the quoted ISO text, NULL for the
\* empty object, the interval literal or NULL, the quoted JSON text for any
\* other object and for every array (the empty one included), else String().
C16_FormatFollowsTable ==
  sqlPc = "formatted" => sqlLiteral = SpecifiedLiteral(sqlValue)

\* the statement text for a non-empty list, rebuilt from the list itself
ExpectedText(tableName, list) ==
  LET columns == list[1].keys
      tuple(record) ==
        <<"(">> \o join([j \in 1..Len(columns) |-> formatValue(Get(record, columns[j]))],
                     <<",", " ">>) \o <<")">>
  IN <<"I", "N", "S", "E", "R", "T", " ", "I", "N", "T", "O", " ", "\"">> \o tableName \o <<"\"", " ", "(">>
     \o join([j \in 1..Len(columns) |-> <<"\"">> \o columns[j] \o <<"\"">>], <<",", " ">>)
     \o <<")", " ", "V", "A", "L", "U", "E", "S", " ">>
     \o join([i \in 1..Len(list) |-> tuple(list[i])], <<",", " ">>)
     \o <<";">>

GeneratedOfType(type) == SelectSeq(sqlQueries, LAMBDA q : q.type = type)

DirectionShape(type, list) ==
  LET generated == GeneratedOfType(type)
  IN IF list = <<>> THEN generated = <<>>
     ELSE /\ Len(generated) = 1
          /\ generated[1].tableName = sqlInput.tableName
          /\ generated[1].recordCount = Len(list)
          /\ Len(generated[1].rows) = Len(list)
          /\ \A i \in 1..Len(list) : Len(generated[1].rows[i]) = Len(list[1].keys)
          /\ generated[1].query = ExpectedText(sqlInput.tableName, list)

\* C17: generateInsertQueries returns one INSERT_TO_EDGE query when
\* missingInEdge is non-empty and one INSERT_TO_CLOUD query when
\* missingInCloud is, none for an empty list; recordCount is the length of
\* the list and the statement holds one tuple per record, each with one
\* value per column of the first record.
C17_OneQueryPerDirection ==
  sqlPc = "generated" =>
    /\ DirectionShape("INSERT_TO_EDGE", sqlInput.missingInEdge)
    /\ DirectionShape("INSERT_TO_CLOUD", sqlInput.missingInCloud)
    /\ Len(sqlQueries) = Len(GeneratedOfType("INSERT_TO_EDGE"))
                         + Len(GeneratedOfType("INSERT_TO_CLOUD"))

\* queries generated for an empty list, and for a list whose second record
\* has other columns than the first
C17_Witness ==
  /\ sqlPc = "generated"
  /\ sqlInput.missingInCloud = <<>>
  /\ Len(sqlInput.missingInEdge) = 2
  /\ sqlInput.missingInEdge[1].keys # sqlInput.missingInEdge[2].keys
  /\ Len(sqlQueries) = 1

SameColumns(list) == \A i \in 1..Len(list) : list[i].keys = list[1].keys

\* C15: the statements generated for lists of records with the same columns,
\* read by parseInsertStatement into the table they name, give back the
\* records of the lists: as many, with the same value for every column.
C15_RoundTrip ==
  (/\ sqlPc = "parsedBack"
   /\ SameColumns(sqlInput.missingInEdge) /\ SameColumns(sqlInput.missingInCloud))
  => dumpTables[1].data = sqlInput.missingInEdge \o sqlInput.missingInCloud

\* a statement was generated and read, and the table is still empty
C15_NothingParsedBack ==
  /\ sqlPc = "parsedBack"
  /\ Len(sqlInput.missingInEdge) = 2 /\ SameColumns(sqlInput.missingInEdge)
  /\ dumpTables[1].data = <<>>


(***************************************************************************)
(* DumpParser.parseContent: what one iteration of the loop does with a     *)
(* line, by the branch of the if / else-if chain that takes it.            *)
(***************************************************************************)
\* pat at position i under the i flag
MatchesIgnoringCase(text, pat, i) ==
  LET UpperCase == <<"A", "B", "C", "D", "E", "F", "G", "H", "I", "J", "K", "L", "M", "N", "O", "P", "Q", "R", "S", "T", "U", "V", "W", "X", "Y", "Z">>
      LowerCase == <<"a", "b", "c", "d", "e", "f", "g", "h", "i", "j", "k", "l", "m", "n", "o", "p", "q", "r", "s", "t", "u", "v", "w", "x", "y", "z">>
      toLowerCase(c) ==
        IF \E k \in 1..26 : UpperCase[k] = c
        THEN LowerCase[CHOOSE k \in 1..26 : UpperCase[k] = c] ELSE c
  IN /\ i >= 1 /\ i + Len(pat) - 1 <= Len(text)
     /\ \A k \in 1..Len(pat) : toLowerCase(text[i + k - 1]) = toLowerCase(pat[k])

\* \s+W1\s+W2... at position i, under the i flag
RECURSIVE SpacedWordsAt(_, _, _)
SpacedWordsAt(text, i, words) ==
  IF words = <<>> THEN TRUE
  ELSE LET j == SkipSpaces(text, i)
       IN /\ j > i
          /\ MatchesIgnoringCase(text, words[1], j)
          /\ SpacedWordsAt(text, j + Len(words[1]), Tail(words))

NotNullWords == <<<<"N", "O", "T">>, <<"N", "U", "L", "L">>>>
DefaultWords == <<<<"D", "E", "F", "A", "U", "L", "T">>>>

\* (?:\s+NOT\s+NULL|\s+DEFAULT|\s*$) at position i
ClauseAt(text, i) ==
  \/ SpacedWordsAt(text, i, NotNullWords)
  \/ SpacedWordsAt(text, i, DefaultWords)
  \/ SkipSpaces(text, i) > Len(text)

\* text.replace(/\s+WORDS.*$/i, '').trim()
RemoveClause(text, words) ==
  LET starts == {i \in 1..Len(text) : SpacedWordsAt(text, i, words)}
  IN IF starts = {} THEN trim(text)
     ELSE trim(SubSeq(text, 1, (CHOOSE i \in starts : \A j \in starts : i <= j) - 1))

\* /^\s*(\w+)\s+(.+?)(?:\s+NOT\s+NULL|\s+DEFAULT|\s*$)/i
ColumnMatch(text) ==
  LET start   == SkipSpaces(text, 1)
      nameEnd == WordEnd(text, start)
      type    == SkipSpaces(text, nameEnd + 1)
      ends    == {e \in type..Len(text) : ClauseAt(text, e + 1)}
  IN IF nameEnd < start \/ type = nameEnd + 1 THEN NoMatch
     ELSE IF type > Len(text)
     THEN IF type - nameEnd > 2
          THEN [found |-> TRUE, columnName |-> SubSeq(text, start, nameEnd),
                dataType |-> <<" ">>]
          ELSE NoMatch
     ELSE [found |-> TRUE, columnName |-> SubSeq(text, start, nameEnd),
           dataType |-> SubSeq(text, type, CHOOSE e \in ends : \A f \in ends : e <= f)]

IsNullableInverted(line) == includes(line, <<"N", "O", "T", " ", "N", "U", "L", "L">>)

\* nullable: !line.includes('NOT NULL')
IsNullable(line) == ~includes(line, <<"N", "O", "T", " ", "N", "U", "L", "L">>)

\* the column a line of an open table declares, if any
ColumnsOf(line) ==
  LET TypeKeywords ==
        {<<"i", "n", "t", "e", "g", "e", "r">>, <<"c", "h", "a", "r", "a", "c", "t", "e", "r", " ", "v", "a", "r", "y", "i", "n", "g">>, <<"v", "a", "r", "c", "h", "a", "r">>, <<"t", "e", "x", "t">>, <<"n", "u", "m", "e", "r", "i", "c">>, <<"t", "i", "m", "e", "s", "t", "a", "m", "p">>}
      trimmedLine == IF endsWith(trim(line), <<",">>)
                     THEN SubSeq(trim(line), 1, Len(trim(line)) - 1) ELSE trim(line)
      match == ColumnMatch(trimmedLine)
  IN IF (\E keyword \in TypeKeywords : includes(line, keyword)) /\ match.found
     THEN <<[name |-> match.columnName,
             dataType |-> RemoveClause(RemoveClause(trim(match.dataType), NotNullWords),
                                       DefaultWords),
             nullable |-> IsNullable(line),
             defaultValue |-> IF includes(line, <<"D", "E", "F", "A", "U", "L", "T">>) THEN <<"d", "e", "f", "a", "u", "l", "t">> ELSE <<>>]>>
     ELSE <<>>

\* line.match(/CREATE TABLE (?:(\w+)\.)?(\w+)/), searched from position i
RECURSIVE CreateTableMatch(_, _)
CreateTableMatch(line, i) ==
  LET at == IndexFrom(line, <<"C", "R", "E", "A", "T", "E", " ", "T", "A", "B", "L", "E", " ">>, i)
  IN IF at = 0 THEN NoMatch
     ELSE IF QualifiedName(line, at + Len(<<"C", "R", "E", "A", "T", "E", " ", "T", "A", "B", "L", "E", " ">>)).found
     THEN QualifiedName(line, at + Len(<<"C", "R", "E", "A", "T", "E", " ", "T", "A", "B", "L", "E", " ">>))
     ELSE CreateTableMatch(line, at + 1)

\* line.match(/ALTER TABLE (?:\w+\.)?(\w+) ADD CONSTRAINT .+ PRIMARY KEY \(([^)]+)\)/):
\* the match at the leftmost position, at or after i, where there is one
RECURSIVE PrimaryKeyMatch(_, _)
PrimaryKeyMatch(line, i) ==
  LET at     == IndexFrom(line, <<"A", "L", "T", "E", "R", " ", "T", "A", "B", "L", "E", " ">>, i)
      name   == QualifiedName(line, at + Len(<<"A", "L", "T", "E", "R", " ", "T", "A", "B", "L", "E", " ">>))
      any    == name.last + 1 + Len(<<" ", "A", "D", "D", " ", "C", "O", "N", "S", "T", "R", "A", "I", "N", "T", " ">>)
      keys   == {k \in (any + 1)..Len(line) :
                   /\ MatchesAt(line, <<" ", "P", "R", "I", "M", "A", "R", "Y", " ", "K", "E", "Y", " ">>, k)
                   /\ Parenthesized(line, k + Len(<<" ", "P", "R", "I", "M", "A", "R", "Y", " ", "K", "E", "Y", " ">>)).found}
      key    == CHOOSE k \in keys : \A j \in keys : j <= k
  IN IF at = 0 THEN NoMatch
     ELSE IF /\ name.found
             /\ MatchesAt(line, <<" ", "A", "D", "D", " ", "C", "O", "N", "S", "T", "R", "A", "I", "N", "T", " ">>, name.last + 1)
             /\ keys # {}
     THEN [found |-> TRUE, tableName |-> name.name,
           columnList |-> Parenthesized(line, key + Len(<<" ", "P", "R", "I", "M", "A", "R", "Y", " ", "K", "E", "Y", " ">>)).inner]
     ELSE PrimaryKeyMatch(line, at + 1)

\* line.match(/ALTER TABLE (?:\w+\.)?(\w+) ADD CONSTRAINT (\w+) FOREIGN KEY \(([^)]+)\)
\*  REFERENCES (?:\w+\.)?(\w+)\(([^)]+)\)/):
\* the match at the leftmost position, at or after i, where there is one
RECURSIVE ForeignKeyMatch(_, _)
ForeignKeyMatch(line, i) ==
  LET at       == IndexFrom(line, <<"A", "L", "T", "E", "R", " ", "T", "A", "B", "L", "E", " ">>, i)
      name     == QualifiedName(line, at + Len(<<"A", "L", "T", "E", "R", " ", "T", "A", "B", "L", "E", " ">>))
      cStart   == name.last + 1 + Len(<<" ", "A", "D", "D", " ", "C", "O", "N", "S", "T", "R", "A", "I", "N", "T", " ">>)
      cEnd     == WordEnd(line, cStart)
      cols     == Parenthesized(line, cEnd + 1 + Len(<<" ", "F", "O", "R", "E", "I", "G", "N", " ", "K", "E", "Y", " ">>))
      refTable == QualifiedName(line, cols.last + 1 + Len(<<" ", "R", "E", "F", "E", "R", "E", "N", "C", "E", "S", " ">>))
      refCols  == Parenthesized(line, refTable.last + 1)
  IN IF at = 0 THEN NoMatch
     ELSE IF /\ name.found
             /\ MatchesAt(line, <<" ", "A", "D", "D", " ", "C", "O", "N", "S", "T", "R", "A", "I", "N", "T", " ">>, name.last + 1)
             /\ cEnd >= cStart
             /\ MatchesAt(line, <<" ", "F", "O", "R", "E", "I", "G", "N", " ", "K", "E", "Y", " ">>, cEnd + 1)
             /\ cols.found
             /\ MatchesAt(line, <<" ", "R", "E", "F", "E", "R", "E", "N", "C", "E", "S", " ">>, cols.last + 1)
             /\ refTable.found
             /\ refCols.found
     THEN [found |-> TRUE, tableName |-> name.name,
           key |-> [name |-> SubSeq(line, cStart, cEnd),
                    columns |-> ColumnList(cols.inner),
                    referencedTable |-> refTable.name,
                    referencedColumns |-> ColumnList(refCols.inner)]]
     ELSE ForeignKeyMatch(line, at + 1)

\* line.match(/CREATE (?:UNIQUE )?INDEX (\w+) ON (?:\w+\.)?(\w+) \(([^)]+)\)/):
\* the match at the leftmost position, at or after i, where there is one
RECURSIVE IndexMatch(_, _)
IndexMatch(line, i) ==
  LET at      == IndexFrom(line, <<"C", "R", "E", "A", "T", "E", " ">>, i)
      afterCreate == at + Len(<<"C", "R", "E", "A", "T", "E", " ">>)
      index   == IF MatchesAt(line, <<"U", "N", "I", "Q", "U", "E", " ", "I", "N", "D", "E", "X", " ">>, afterCreate)
                 THEN afterCreate + Len(<<"U", "N", "I", "Q", "U", "E", " ", "I", "N", "D", "E", "X", " ">>)
                 ELSE afterCreate + Len(<<"I", "N", "D", "E", "X", " ">>)
      nameEnd == WordEnd(line, index)
      table   == QualifiedName(line, nameEnd + 1 + Len(<<" ", "O", "N", " ">>))
      cols    == Parenthesized(line, table.last + 2)
  IN IF at = 0 THEN NoMatch
     ELSE IF /\ \/ MatchesAt(line, <<"U", "N", "I", "Q", "U", "E", " ", "I", "N", "D", "E", "X", " ">>, afterCreate)
                \/ MatchesAt(line, <<"I", "N", "D", "E", "X", " ">>, afterCreate)
             /\ nameEnd >= index
             /\ MatchesAt(line, <<" ", "O", "N", " ">>, nameEnd + 1)
             /\ table.found
             /\ MatchesAt(line, <<" ">>, table.last + 1)
             /\ cols.found
     THEN [found |-> TRUE, tableName |-> table.name,
           index |-> [name |-> SubSeq(line, index, nameEnd),
                      columns |-> ColumnList(cols.inner),
                      unique |-> includes(line, <<"U", "N", "I", "Q", "U", "E">>)]]
     ELSE IndexMatch(line, at + 1)

\* this.tables.set(name, table)
SetTable(parsed, table) ==
  IF HasDumpTable(parsed, table.name)
  THEN [i \in 1..Len(parsed) |-> IF parsed[i].name = table.name THEN table ELSE parsed[i]]
  ELSE Append(parsed, table)

\* this.tables after this.tables.get(name)[field] = value
WithTable(parsed, name, field, value) ==
  [i \in 1..Len(parsed) |->
     IF parsed[i].name = name THEN [parsed[i] EXCEPT ![field] = value] ELSE parsed[i]]

GetTable(parsed, name) == parsed[CHOOSE i \in 1..Len(parsed) : parsed[i].name = name]

\* const line = lines[i].trim()
CurrentLine == trim(dumpLines[lineIdx])

\* the branch of the chain that takes the current line
Branch ==
  LET line == CurrentLine
  IN IF startsWith(line, <<"C", "R", "E", "A", "T", "E", " ", "T", "A", "B", "L", "E">>) THEN "createTable"
     ELSE IF currentTable # <<>> /\ ~startsWith(line, <<"-", "-">>) /\ Len(line) > 0
     THEN "tableBody"
     ELSE IF includes(line, <<"A", "D", "D", " ", "C", "O", "N", "S", "T", "R", "A", "I", "N", "T">>) /\ includes(line, <<"P", "R", "I", "M", "A", "R", "Y", " ", "K", "E", "Y">>)
     THEN "primaryKey"
     ELSE IF includes(line, <<"A", "D", "D", " ", "C", "O", "N", "S", "T", "R", "A", "I", "N", "T">>) /\ includes(line, <<"F", "O", "R", "E", "I", "G", "N", " ", "K", "E", "Y">>)
     THEN "foreignKey"
     ELSE IF startsWith(line, <<"C", "R", "E", "A", "T", "E", " ", "I", "N", "D", "E", "X">>) \/ startsWith(line, <<"C", "R", "E", "A", "T", "E", " ", "U", "N", "I", "Q", "U", "E", " ", "I", "N", "D", "E", "X">>)
     THEN "index"
     ELSE IF startsWith(line, <<"I", "N", "S", "E", "R", "T", " ", "I", "N", "T", "O">>) THEN "insert"
     ELSE IF isInsertSection THEN "insertSection"
     ELSE "none"

AtLine(branch) ==
  /\ parsePc = "parsing"
  /\ lineIdx <= Len(dumpLines)
  /\ Branch = branch

\* i++, and the loop ends after the last line
NextLine ==
  /\ lineIdx' = lineIdx + 1
  /\ parsePc' = IF lineIdx = Len(dumpLines) THEN "parsed" ELSE "parsing"
  /\ UNCHANGED <<parseRest, dumpLines>>

DefaultSchema == <<"p", "u", "b", "l", "i", "c">>

\* a CREATE TABLE line: the table is registered when its schema is this.schema
CreateTableLine ==
  /\ AtLine("createTable")
  /\ LET match == CreateTableMatch(CurrentLine, 1)
         schema == IF match.found /\ match.qualifier # <<>>
                   THEN match.qualifier ELSE DefaultSchema
     IN IF match.found /\ schema = DefaultSchema
        THEN /\ currentTable' = match.name
             /\ dumpTables' = SetTable(dumpTables, DumpTable(match.name))
        ELSE UNCHANGED <<currentTable, dumpTables>>
  /\ NextLine
  /\ UNCHANGED <<isInsertSection, insertBuffer>>

\* a line while a table is open: a column when it names a type, and the
\* table is closed when the line holds ");"
TableBodyLine ==
  /\ AtLine("tableBody")
  /\ dumpTables' =
       IF HasDumpTable(dumpTables, currentTable)
       THEN WithTable(dumpTables, currentTable, "columns",
                      GetTable(dumpTables, currentTable).columns \o ColumnsOf(CurrentLine))
       ELSE dumpTables
  /\ currentTable' = IF includes(CurrentLine, <<")", ";">>) THEN <<>> ELSE currentTable
  /\ NextLine
  /\ UNCHANGED <<isInsertSection, insertBuffer>>

PrimaryKeyLine ==
  /\ AtLine("primaryKey")
  /\ LET match == PrimaryKeyMatch(CurrentLine, 1)
     IN dumpTables' =
          IF match.found /\ HasDumpTable(dumpTables, match.tableName)
          THEN WithTable(dumpTables, match.tableName, "primaryKeys",
                         ColumnList(match.columnList))
          ELSE dumpTables
  /\ NextLine
  /\ UNCHANGED <<currentTable, isInsertSection, insertBuffer>>

ForeignKeyLine ==
  /\ AtLine("foreignKey")
  /\ LET match == ForeignKeyMatch(CurrentLine, 1)
     IN dumpTables' =
          IF match.found /\ HasDumpTable(dumpTables, match.tableName)
          THEN WithTable(dumpTables, match.tableName, "foreignKeys",
                         Append(GetTable(dumpTables, match.tableName).foreignKeys, match.key))
          ELSE dumpTables
  /\ NextLine
  /\ UNCHANGED <<currentTable, isInsertSection, insertBuffer>>

IndexLine ==
  /\ AtLine("index")
  /\ LET match == IndexMatch(CurrentLine, 1)
     IN dumpTables' =
          IF match.found /\ HasDumpTable(dumpTables, match.tableName)
          THEN WithTable(dumpTables, match.tableName, "indexes",
                         Append(GetTable(dumpTables, match.tableName).indexes, match.index))
          ELSE dumpTables
  /\ NextLine
  /\ UNCHANGED <<currentTable, isInsertSection, insertBuffer>>

\* INSERT INTO: parsed at once when the line ends with ";", buffered otherwise
InsertLine ==
  /\ AtLine("insert")
  /\ IF endsWith(CurrentLine, <<";">>)
     THEN /\ dumpTables' = parseInsertStatement(dumpTables, CurrentLine)
          /\ UNCHANGED <<isInsertSection, insertBuffer>>
     ELSE /\ isInsertSection' = TRUE
          /\ insertBuffer' = CurrentLine
          /\ UNCHANGED dumpTables
  /\ NextLine
  /\ UNCHANGED currentTable

\* insertBuffer += ' ' + line
Accumulate(buffer, line) == buffer \o <<" ">> \o line

\* a line of a buffered INSERT
InsertSectionLine ==
  /\ AtLine("insertSection")
  /\ LET buffer == Accumulate(insertBuffer, CurrentLine)
     IN IF endsWith(CurrentLine, <<";">>)
        THEN /\ dumpTables' = parseInsertStatement(dumpTables, buffer)
             /\ isInsertSection' = FALSE
             /\ insertBuffer' = <<>>
        ELSE /\ insertBuffer' = buffer
             /\ UNCHANGED <<dumpTables, isInsertSection>>
  /\ NextLine
  /\ UNCHANGED currentTable

\* a line no branch takes
OtherLine ==
  /\ AtLine("none")
  /\ NextLine
  /\ UNCHANGED <<dumpTables, currentTable, isInsertSection, insertBuffer>>


(***************************************************************************)
(* Dumps: one table of the default schema, then statements of which some   *)
(* name another schema.                                                    *)
(***************************************************************************)
MaxColumnLines == 2   \* most column lines of the table
MaxStatements  == 2   \* most lines after the table

CreateLines == {<<"C", "R", "E", "A", "T", "E", " ", "T", "A", "B", "L", "E", " ", "p", "u", "b", "l", "i", "c", ".", "u", "s", "e", "r", "s", " ", "(">>, <<"C", "R", "E", "A", "T", "E", " ", "T", "A", "B", "L", "E", " ", "u", "s", "e", "r", "s", " ", "(">>}

ColumnLine(text, name, notNull) == [text |-> text, name |-> name, notNull |-> notNull]

ColumnLinePool ==
  {ColumnLine(<<" ", " ", " ", " ", "i", "d", " ", "i", "n", "t", "e", "g", "e", "r", " ", "N", "O", "T", " ", "N", "U", "L", "L", ",">>, <<"i", "d">>, TRUE),
   ColumnLine(<<" ", " ", " ", " ", "n", "a", "m", "e", " ", "c", "h", "a", "r", "a", "c", "t", "e", "r", " ", "v", "a", "r", "y", "i", "n", "g", "(", "5", "0", ")", ",">>, <<"n", "a", "m", "e">>, FALSE),
   ColumnLine(<<" ", " ", " ", " ", "n", "o", "t", "e", " ", "t", "e", "x", "t", " ", "D", "E", "F", "A", "U", "L", "T", " ", "'", "n", "/", "a", "'", ":", ":", "t", "e", "x", "t", " ", "N", "O", "T", " ", "N", "U", "L", "L", ",">>, <<"n", "o", "t", "e">>, TRUE),
   ColumnLine(<<" ", " ", " ", " ", "s", "e", "e", "n", "_", "a", "t", " ", "t", "i", "m", "e", "s", "t", "a", "m", "p", " ", "w", "i", "t", "h", "o", "u", "t", " ", "t", "i", "m", "e", " ", "z", "o", "n", "e">>, <<"s", "e", "e", "n", "_", "a", "t">>, FALSE)}

ClosingLine == <<")", ";">>

SingleInsert(text, tuples) == [text |-> text, tuples |-> tuples]

\* single-line INSERT statements into the table
InsertPool ==
  {SingleInsert(<<"I", "N", "S", "E", "R", "T", " ", "I", "N", "T", "O", " ", "u", "s", "e", "r", "s", " ", "(", "i", "d", ",", " ", "n", "a", "m", "e", ")", " ", "V", "A", "L", "U", "E", "S", " ", "(", "1", ",", " ", "'", "A", "n", "n", "'", ")", ",", " ", "(", "2", ",", " ", "N", "U", "L", "L", ")", ";">>, 2),
   SingleInsert(<<"I", "N", "S", "E", "R", "T", " ", "I", "N", "T", "O", " ", "p", "u", "b", "l", "i", "c", ".", "u", "s", "e", "r", "s", " ", "(", "i", "d", ",", " ", "n", "a", "m", "e", ")", " ", "V", "A", "L", "U", "E", "S", " ", "(", "3", ",", " ", "'", "O", "'", "'", "B", "r", "i", "e", "n", ",", " ", "J", "r", ".", "'", ")", ";">>, 1)}

\* statements that name the schema other
OtherSchemaLines ==
  {<<"I", "N", "S", "E", "R", "T", " ", "I", "N", "T", "O", " ", "o", "t", "h", "e", "r", ".", "u", "s", "e", "r", "s", " ", "(", "i", "d", ",", " ", "n", "a", "m", "e", ")", " ", "V", "A", "L", "U", "E", "S", " ", "(", "9", ",", " ", "'", "E", "v", "e", "'", ")", ";">>,
   <<"A", "L", "T", "E", "R", " ", "T", "A", "B", "L", "E", " ", "o", "t", "h", "e", "r", ".", "u", "s", "e", "r", "s", " ", "A", "D", "D", " ", "C", "O", "N", "S", "T", "R", "A", "I", "N", "T", " ", "u", "s", "e", "r", "s", "_", "p", "k", "e", "y", " ", "P", "R", "I", "M", "A", "R", "Y", " ", "K", "E", "Y", " ", "(", "u", "i", "d", ")", ";">>,
   <<"C", "R", "E", "A", "T", "E", " ", "U", "N", "I", "Q", "U", "E", " ", "I", "N", "D", "E", "X", " ", "o", "t", "h", "e", "r", "_", "u", "s", "e", "r", "s", "_", "n", "a", "m", "e", " ", "O", "N", " ", "o", "t", "h", "e", "r", ".", "u", "s", "e", "r", "s", " ", "(", "n", "a", "m", "e", ")", ";">>,
   <<"C", "R", "E", "A", "T", "E", " ", "T", "A", "B", "L", "E", " ", "o", "t", "h", "e", "r", ".", "o", "r", "d", "e", "r", "s", " ", "(", "i", "d", " ", "i", "n", "t", "e", "g", "e", "r", ")", ";">>}

StatementLines ==
  {d.text : d \in InsertPool} \cup OtherSchemaLines \cup
  {<<"A", "L", "T", "E", "R", " ", "T", "A", "B", "L", "E", " ", "p", "u", "b", "l", "i", "c", ".", "u", "s", "e", "r", "s", " ", "A", "D", "D", " ", "C", "O", "N", "S", "T", "R", "A", "I", "N", "T", " ", "u", "s", "e", "r", "s", "_", "p", "k", "e", "y", " ", "P", "R", "I", "M", "A", "R", "Y", " ", "K", "E", "Y", " ", "(", "i", "d", ")", ";">>,
   <<"C", "R", "E", "A", "T", "E", " ", "I", "N", "D", "E", "X", " ", "u", "s", "e", "r", "s", "_", "i", "d", " ", "O", "N", " ", "u", "s", "e", "r", "s", " ", "(", "i", "d", ")", ";">>,
   <<"A", "L", "T", "E", "R", " ", "T", "A", "B", "L", "E", " ", "u", "s", "e", "r", "s", " ", "A", "D", "D", " ", "C", "O", "N", "S", "T", "R", "A", "I", "N", "T", " ", "u", "s", "e", "r", "s", "_", "o", "r", "g", " ", "F", "O", "R", "E", "I", "G", "N", " ", "K", "E", "Y", " ", "(", "o", "r", "g", ")", " ", "R", "E", "F", "E", "R", "E", "N", "C", "E", "S", " ", "p", "u", "b", "l", "i", "c", ".", "o", "r", "g", "s", "(", "i", "d", ")", ";">>,
   <<"I", "N", "S", "E", "R", "T", " ", "I", "N", "T", "O", " ", "u", "s", "e", "r", "s", " ", "(", "i", "d", ",", " ", "n", "a", "m", "e", ")", " ", "V", "A", "L", "U", "E", "S">>,
   <<" ", " ", "(", "4", ",", " ", "'", "D", "e", "e", "'", ")", ";">>,
   <<"-", "-", " ", "P", "o", "s", "t", "g", "r", "e", "S", "Q", "L", " ", "d", "a", "t", "a", "b", "a", "s", "e", " ", "d", "u", "m", "p">>}

\* a table declared on one line: no later line has closed it
OneLineCreate == <<"C", "R", "E", "A", "T", "E", " ", "T", "A", "B", "L", "E", " ", "p", "u", "b", "l", "i", "c", ".", "u", "s", "e", "r", "s", " ", "(", "i", "d", " ", "i", "n", "t", "e", "g", "e", "r", ",", " ", "n", "a", "m", "e", " ", "t", "e", "x", "t", ")", ";">>

RECURSIVE LineLists(_, _)
LineLists(pool, n) ==
  IF n = 0 THEN {<<>>}
  ELSE LET shorter == LineLists(pool, n - 1)
       IN shorter \cup {Append(l, t) : l \in {q \in shorter : Len(q) = n - 1}, t \in pool}

\* INSERT statements written over several lines
MultiLineStatements ==
  {<<<<"I", "N", "S", "E", "R", "T", " ", "I", "N", "T", "O", " ", "u", "s", "e", "r", "s", " ", "(", "i", "d", ",", " ", "n", "a", "m", "e", ")", " ", "V", "A", "L", "U", "E", "S">>, <<" ", " ", "(", "4", ",", " ", "'", "D", "e", "e", "'", ")", ";">>>>,
   <<<<"I", "N", "S", "E", "R", "T", " ", "I", "N", "T", "O", " ", "u", "s", "e", "r", "s", " ", "(", "i", "d", ",", " ", "n", "a", "m", "e", ")", " ", "V", "A", "L", "U", "E", "S", " ", "(", "5", ",", " ", "'", "E", "l", "i", "'", ")", ",">>, <<" ", " ", "(", "6", ",", " ", "'", "F", "a", "y", "'", ")", ",">>, <<" ", " ", "(", "7", ",", " ", "'", "G", "u", "s", "'", ")", ";">>>>,
   <<<<"I", "N", "S", "E", "R", "T", " ", "I", "N", "T", "O", " ", "p", "u", "b", "l", "i", "c", ".", "u", "s", "e", "r", "s", " ", "(", "i", "d", ",", " ", "n", "a", "m", "e", ")">>, <<"V", "A", "L", "U", "E", "S">>, <<"(", "8", ",", " ", "'", "H", "a", "l", "'", ")", ";">>>>,
   <<<<"I", "N", "S", "E", "R", "T", " ", "I", "N", "T", "O", " ", "u", "s", "e", "r", "s", " ", "(", "i", "d", ",", " ", "n", "a", "m", "e", ")", " ", "V", "A", "L", "U", "E", "S">>, <<" ", " ", "(", "2", ",", " ", "'", "A", "D", "D", " ", "C", "O", "N", "S", "T", "R", "A", "I", "N", "T", " ", "u", "s", "e", "r", "s", "_", "p", "k", "e", "y", " ", "P", "R", "I", "M", "A", "R", "Y", " ", "K", "E", "Y", "'", ")", ",">>,
     <<" ", " ", "(", "3", ",", " ", "'", "I", "d", "a", "'", ")", ";">>>>}

\* the lines of a statement on one line, joined by single spaces
JoinedStatement(statement) ==
  join([i \in 1..Len(statement) |-> trim(statement[i])], <<" ">>)

Written(statement, multi) == IF multi THEN statement ELSE <<JoinedStatement(statement)>>

\* what precedes the statements: a closed table, a table still open, or a
\* closed table and an INSERT that no line has ended
Prefixes ==
  LET closed == <<<<"C", "R", "E", "A", "T", "E", " ", "T", "A", "B", "L", "E", " ", "p", "u", "b", "l", "i", "c", ".", "u", "s", "e", "r", "s", " ", "(">>, <<" ", " ", " ", " ", "i", "d", " ", "i", "n", "t", "e", "g", "e", "r", " ", "N", "O", "T", " ", "N", "U", "L", "L", ",">>,
                  <<" ", " ", " ", " ", "n", "a", "m", "e", " ", "c", "h", "a", "r", "a", "c", "t", "e", "r", " ", "v", "a", "r", "y", "i", "n", "g", "(", "5", "0", ")">>, ClosingLine>>
  IN {[lines |-> closed, open |-> FALSE],
      [lines |-> <<OneLineCreate>>, open |-> TRUE],
      [lines |-> Append(closed, <<"I", "N", "S", "E", "R", "T", " ", "I", "N", "T", "O", " ", "u", "s", "e", "r", "s", " ", "(", "i", "d", ",", " ", "n", "a", "m", "e", ")", " ", "V", "A", "L", "U", "E", "S", " ", "(", "0", ",", " ", "'", "O", "l", "d", "'", ")", ",">>),
       open |-> FALSE]}

\* nothing, a comment line or an empty line
BetweenLines == {<<>>, <<<<"-", "-", " ", "P", "o", "s", "t", "g", "r", "e", "S", "Q", "L", " ", "d", "a", "t", "a", "b", "a", "s", "e", " ", "d", "u", "m", "p">>>>, <<<<>>>>}

\* a prefix, then one or two statements, each over several lines or on one
BufferedScenarios ==
  {[lines |-> p.lines \o Written(s1, m1), open |-> p.open,
    statements |-> <<JoinedStatement(s1)>>] :
     p \in Prefixes, s1 \in MultiLineStatements, m1 \in BOOLEAN}
  \cup
  {[lines |-> p.lines \o Written(s1, m1) \o b \o Written(s2, m2), open |-> p.open,
    statements |-> <<JoinedStatement(s1), JoinedStatement(s2)>>] :
     p \in Prefixes, s1 \in MultiLineStatements, m1 \in BOOLEAN, b \in BetweenLines,
     s2 \in MultiLineStatements, m2 \in BOOLEAN}

\* every table definition followed by at most one INSERT line, one table
\* definition followed by every list of statements, a table that is still
\* open followed by a statement, and the statements over several lines
Dumps ==
  LET ScenarioDumps ==
      {<<create>> \o columnLines \o <<ClosingLine>> \o statements :
         create \in CreateLines,
         columnLines \in LineLists({d.text : d \in ColumnLinePool}, MaxColumnLines),
         statements \in LineLists({d.text : d \in InsertPool}, 1)}
      StatementDumps ==
      {<<<<"C", "R", "E", "A", "T", "E", " ", "T", "A", "B", "L", "E", " ", "p", "u", "b", "l", "i", "c", ".", "u", "s", "e", "r", "s", " ", "(">>, <<" ", " ", " ", " ", "i", "d", " ", "i", "n", "t", "e", "g", "e", "r", " ", "N", "O", "T", " ", "N", "U", "L", "L", ",">>,
         <<" ", " ", " ", " ", "n", "a", "m", "e", " ", "c", "h", "a", "r", "a", "c", "t", "e", "r", " ", "v", "a", "r", "y", "i", "n", "g", "(", "5", "0", ")">>, ClosingLine>> \o statements :
         statements \in LineLists(StatementLines, MaxStatements)}
      OpenTableDumps ==
      {<<OneLineCreate>> \o statements : statements \in LineLists(StatementLines, 1)}
  IN ScenarioDumps \cup StatementDumps \cup OpenTableDumps
     \cup {sc.lines : sc \in BufferedScenarios}

\* parseContent(content) on a parser just constructed
InitParse ==
  /\ SchemaUnused
  /\ DataIdle
  /\ ExecIdle
  /\ FilterIdle
  /\ ConnIdle
  /\ SqlIdle
  /\ ParserConstructed
  /\ dumpLines \in Dumps
  /\ lineIdx = 1
  /\ parsePc = "parsing"

NextParse ==
  \/ CreateTableLine
  \/ TableBodyLine
  \/ PrimaryKeyLine
  \/ ForeignKeyLine
  \/ IndexLine
  \/ InsertLine
  \/ InsertSectionLine
  \/ OtherLine

SpecParse == InitParse /\ [][NextParse]_vars

(***************************************************************************)
(* Claims about the dump parser.                                           *)
(***************************************************************************)
ColumnLineFacts(line) == CHOOSE d \in ColumnLinePool : d.text = line

InsertLineFacts(line) == CHOOSE d \in InsertPool : d.text = line

\* a CREATE TABLE line, column lines, the closing line and one INSERT line
ScenarioDump ==
  LET n == Len(dumpLines)
  IN /\ n >= 3
     /\ dumpLines[1] \in CreateLines
     /\ \A i \in 2..(n - 2) : dumpLines[i] \in {d.text : d \in ColumnLinePool}
     /\ dumpLines[n - 1] = ClosingLine
     /\ dumpLines[n] \in {d.text : d \in InsertPool}

FromOtherSchema(table) ==
  \/ table.name = <<"o", "r", "d", "e", "r", "s">>
  \/ \E i \in 1..Len(table.primaryKeys) : table.primaryKeys[i] = <<"u", "i", "d">>
  \/ \E i \in 1..Len(table.indexes) : table.indexes[i].name = <<"o", "t", "h", "e", "r", "_", "u", "s", "e", "r", "s", "_", "n", "a", "m", "e">>
  \/ \E i \in 1..Len(table.data) : Get(table.data[i], <<"i", "d">>) = JsNumber(<<"9">>)

\* C14: nothing that a statement qualified with another schema declares
\* reaches the tables of the parser: no table, primary key, index or record.
C14_OtherSchemaIgnored ==
  \A i \in 1..Len(dumpTables) : ~FromOtherSchema(dumpTables[i])

\* C22: whatever the parser state, a line that matches the ALTER TABLE ... ADD
\* CONSTRAINT ... PRIMARY KEY (cols) expression sets the primary key of the
\* named table, and one that matches the FOREIGN KEY expression adds the key
\* to it, when the table is registered; the tables stay as they are when it
\* is not.
C22_ConstraintAttachedInAnyState ==
  [][(parsePc = "parsing" /\ lineIdx' = lineIdx + 1) =>
       LET pk == PrimaryKeyMatch(CurrentLine, 1)
           fk == ForeignKeyMatch(CurrentLine, 1)
       IN /\ pk.found =>
               IF HasDumpTable(dumpTables, pk.tableName)
               THEN GetTable(dumpTables', pk.tableName).primaryKeys =
                      ColumnList(pk.columnList)
               ELSE dumpTables' = dumpTables
          /\ fk.found =>
               IF HasDumpTable(dumpTables, fk.tableName)
               THEN GetTable(dumpTables', fk.tableName).foreignKeys =
                      Append(GetTable(dumpTables, fk.tableName).foreignKeys, fk.key)
               ELSE dumpTables' = dumpTables]_vars

\* the primary key line of users was read while the table was open, and the
\* table has no primary key
C22_ConstraintLost ==
  /\ parsePc = "parsed"
  /\ dumpLines = <<OneLineCreate, <<"A", "L", "T", "E", "R", " ", "T", "A", "B", "L", "E", " ", "p", "u", "b", "l", "i", "c", ".", "u", "s", "e", "r", "s", " ", "A", "D", "D", " ", "C", "O", "N", "S", "T", "R", "A", "I", "N", "T", " ", "u", "s", "e", "r", "s", "_", "p", "k", "e", "y", " ", "P", "R", "I", "M", "A", "R", "Y", " ", "K", "E", "Y", " ", "(", "i", "d", ")", ";">>>>
  /\ dumpTables[1].primaryKeys = <<>>

\* whether the chain of parseContent hands a line that starts with INSERT INTO
\* to the INSERT branch when no table is open
TakenAsInsert(statement) ==
  ~(/\ includes(statement, <<"A", "D", "D", " ", "C", "O", "N", "S", "T", "R", "A", "I", "N", "T">>)
    /\ includes(statement, <<"P", "R", "I", "M", "A", "R", "Y", " ", "K", "E", "Y">>) \/ includes(statement, <<"F", "O", "R", "E", "I", "G", "N", " ", "K", "E", "Y">>))

\* the tables after the statements, each written on one line
RECURSIVE YieldOf(_, _)
YieldOf(parsed, statements) ==
  IF statements = <<>> THEN parsed
  ELSE YieldOf(IF TakenAsInsert(statements[1])
               THEN parseInsertStatement(parsed, statements[1]) ELSE parsed,
               Tail(statements))

\* the records the statements of a scenario yield when each is written on one
\* line; in a table that is still open the first one is a line of the table
ExpectedRecords(sc) ==
  YieldOf(<<DumpTable(<<"u", "s", "e", "r", "s">>)>>,
          IF sc.open THEN Tail(sc.statements) ELSE sc.statements)[1].data

\* C23: an INSERT INTO statement written over several lines yields the records
\* that the same statement yields on one line, lines joined by single spaces,
\* whether the table before it is closed, still open, or followed by an INSERT
\* that was never ended; and the buffer of a statement starts with its own
\* first line, whatever lines came before.
C23_MultiLineAsOneLine ==
  /\ parsePc = "parsed" =>
       \A sc \in BufferedScenarios :
         dumpLines = sc.lines => dumpTables[1].data = ExpectedRecords(sc)
  /\ (/\ parsePc # "idle" /\ lineIdx > 1 /\ isInsertSection
      /\ startsWith(trim(dumpLines[lineIdx - 1]), <<"I", "N", "S", "E", "R", "T", " ", "I", "N", "T", "O">>)
      /\ ~endsWith(trim(dumpLines[lineIdx - 1]), <<";">>))
     => insertBuffer = trim(dumpLines[lineIdx - 1])

\* the statement of three lines has yielded the record of its last line only;
\* on one line it yields none
C23_TupleLineLost ==
  /\ parsePc = "parsed"
  /\ Len(dumpLines) = 7
  /\ dumpLines[6] = <<" ", " ", "(", "2", ",", " ", "'", "A", "D", "D", " ", "C", "O", "N", "S", "T", "R", "A", "I", "N", "T", " ", "u", "s", "e", "r", "s", "_", "p", "k", "e", "y", " ", "P", "R", "I", "M", "A", "R", "Y", " ", "K", "E", "Y", "'", ")", ",">>
  /\ Len(dumpTables[1].data) = 1
  /\ \E sc \in BufferedScenarios : dumpLines = sc.lines /\ ExpectedRecords(sc) = <<>>


(***************************************************************************)
(* The table allow-list.  Table names and entries are texts.               *)
(***************************************************************************)
MaxEntries == 2     \* longest options.tables

\* tableFilter: null without a list; otherwise the entries mapped to their
\* table name, or dropped when qualified with another schema
ParsedFilter(tables, schema) ==
  LET RECURSIVE Mapped(_)
      Mapped(i) ==
        IF i > Len(tables) THEN <<>>
        ELSE (IF includes(tables[i], <<".">>)
              THEN LET parts == split(tables[i], <<".">>)
                   IN IF parts[1] = schema THEN <<parts[2]>> ELSE <<>>
              ELSE <<tables[i]>>) \o Mapped(i + 1)
  IN IF Len(tables) > 0 THEN [isNull |-> FALSE, names |-> Mapped(1)]
     ELSE [isNull |-> TRUE, names |-> <<>>]

\* tables && tables.length > 0
NonEmptyFilter(filter) == ~filter.isNull /\ Len(filter.names) > 0

\* the listing query of getSchemaInfo and of getCommonTables: table_name IN
\* (...) is part of it only for a non-empty filter
ListingQuery(tables, filter) ==
  IF NonEmptyFilter(filter)
  THEN SelectSeq(tables, LAMBDA t : t \in Range(filter.names))
  ELSE tables

\* commonTables.filter(table => tableFilter.includes(table)), under its test
PostFilter(tables, filter) ==
  IF NonEmptyFilter(filter)
  THEN SelectSeq(tables, LAMBDA t : t \in Range(filter.names))
  ELSE tables

FilterSide == IF filterPc = "cloud" THEN "cloud" ELSE "edge"

FilterAfterSide == IF filterPc = "cloud" THEN "edge" ELSE "compare"

\* the map over options.tables at the head of both functions
FilterParse ==
  /\ filterPc = "ready"
  /\ tableFilter' = ParsedFilter(filterEntries, filterSchema)
  /\ filterPc' = "cloud"
  /\ UNCHANGED <<filterRest, filterOp, filterSchema, filterEntries, filterKinds,
                 filterContent, filterListing, filterResult>>

\* a dump side: getSchemaInfo() / getDataInfo() of the parser, no filter
FilterParseDump ==
  /\ filterPc \in {"cloud", "edge"}
  /\ filterKinds[FilterSide] = "dump"
  /\ filterListing' = [filterListing EXCEPT ![FilterSide] = filterContent[FilterSide]]
  /\ filterPc' = FilterAfterSide
  /\ UNCHANGED <<filterRest, filterOp, filterSchema, filterEntries, filterKinds,
                 filterContent, tableFilter, filterResult>>

\* compareDatabases, a live side: getSchemaInfo(client, schema, tableFilter)
FilterGetSchemaInfo ==
  /\ filterPc \in {"cloud", "edge"}
  /\ filterKinds[FilterSide] = "live"
  /\ filterOp = "compareDatabases"
  /\ filterListing' = [filterListing EXCEPT
                         ![FilterSide] = ListingQuery(filterContent[FilterSide], tableFilter)]
  /\ filterPc' = FilterAfterSide
  /\ UNCHANGED <<filterRest, filterOp, filterSchema, filterEntries, filterKinds,
                 filterContent, tableFilter, filterResult>>

\* compareData, a live side: the connection is opened, nothing is listed yet
FilterConnect ==
  /\ filterPc \in {"cloud", "edge"}
  /\ filterKinds[FilterSide] = "live"
  /\ filterOp = "compareData"
  /\ filterPc' = FilterAfterSide
  /\ UNCHANGED <<filterRest, filterOp, filterSchema, filterEntries, filterKinds,
                 filterContent, tableFilter, filterListing, filterResult>>

\* compareDatabases: the name lists of compareSchemas
FilterCompareSchemas ==
  /\ filterPc = "compare"
  /\ filterOp = "compareDatabases"
  /\ filterResult' =
       [commonTables |-> CommonTables(filterListing.cloud, filterListing.edge),
        onlyInSource |-> OnlyInSource(filterListing.cloud, filterListing.edge),
        onlyInTarget |-> OnlyInTarget(filterListing.cloud, filterListing.edge)]
  /\ filterPc' = "done"
  /\ UNCHANGED <<filterRest, filterOp, filterSchema, filterEntries, filterKinds,
                 filterContent, tableFilter, filterListing>>

\* compareData on two dumps: the common keys, then the filter
FilterDumpCommon ==
  /\ filterPc = "compare"
  /\ filterOp = "compareData"
  /\ filterKinds.cloud = "dump" /\ filterKinds.edge = "dump"
  /\ filterResult' =
       [filterResult EXCEPT
          !.commonTables =
             PostFilter(CommonTables(filterListing.cloud, filterListing.edge), tableFilter)]
  /\ filterPc' = "done"
  /\ UNCHANGED <<filterRest, filterOp, filterSchema, filterEntries, filterKinds,
                 filterContent, tableFilter, filterListing>>

\* compareData on two databases: getCommonTables(schema, tableFilter), then
\* the filter
FilterGetCommonTables ==
  /\ filterPc = "compare"
  /\ filterOp = "compareData"
  /\ filterKinds.cloud = "live" /\ filterKinds.edge = "live"
  /\ LET cloudTables == ListingQuery(filterContent.cloud, tableFilter)
         edgeTables  == ListingQuery(filterContent.edge, tableFilter)
     IN /\ filterListing' = [cloud |-> cloudTables, edge |-> edgeTables]
        /\ filterResult' =
             [filterResult EXCEPT
                !.commonTables = PostFilter(CommonTables(cloudTables, edgeTables), tableFilter)]
  /\ filterPc' = "done"
  /\ UNCHANGED <<filterRest, filterOp, filterSchema, filterEntries, filterKinds,
                 filterContent, tableFilter>>

\* compareData on a database and a dump: getCommonTables queries the client
\* of the dump side, which does not exist
FilterGetCommonTablesThrows ==
  /\ filterPc = "compare"
  /\ filterOp = "compareData"
  /\ filterKinds.cloud # filterKinds.edge
  /\ filterPc' = "threw"
  /\ UNCHANGED <<filterRest, filterOp, filterSchema, filterEntries, filterKinds,
                 filterContent, tableFilter, filterListing, filterResult>>

FilterSchemas == {<<"p", "u", "b", "l", "i", "c">>, <<"s", "a", "l", "e", "s">>}

FilterEntryPool ==
  {<<"u", "s", "e", "r", "s">>, <<"l", "o", "g", "s">>, <<"p", "u", "b", "l", "i", "c", ".", "u", "s", "e", "r", "s">>, <<"s", "a", "l", "e", "s", ".", "u", "s", "e", "r", "s">>, <<"s", "a", "l", "e", "s", ".", "o", "r", "d", "e", "r", "s">>}

RECURSIVE EntryLists(_)
EntryLists(n) ==
  IF n = 0 THEN {<<>>}
  ELSE LET shorter == EntryLists(n - 1)
       IN shorter \cup {Append(l, e) : l \in {q \in shorter : Len(q) = n - 1},
                                       e \in FilterEntryPool}

\* the tables of the schema on a side, in name order
FilterContents == {<<<<"l", "o", "g", "s">>, <<"u", "s", "e", "r", "s">>>>, <<<<"o", "r", "d", "e", "r", "s">>, <<"u", "s", "e", "r", "s">>>>}

InitFilter ==
  /\ SchemaUnused
  /\ DataIdle
  /\ ExecIdle
  /\ ParseIdle
  /\ SqlIdle
  /\ ConnIdle
  /\ filterOp \in {"compareDatabases", "compareData"}
  /\ filterSchema \in FilterSchemas
  /\ filterEntries \in EntryLists(MaxEntries)
  /\ filterKinds \in [{"cloud", "edge"} -> {"live", "dump"}]
  /\ filterContent \in [{"cloud", "edge"} -> FilterContents]
  /\ tableFilter = [isNull |-> TRUE, names |-> <<>>]
  /\ filterListing = [cloud |-> <<>>, edge |-> <<>>]
  /\ filterResult = NoFilterResult
  /\ filterPc = "ready"

NextFilter ==
  \/ FilterParse
  \/ FilterParseDump
  \/ FilterGetSchemaInfo
  \/ FilterConnect
  \/ FilterCompareSchemas
  \/ FilterDumpCommon
  \/ FilterGetCommonTables
  \/ FilterGetCommonTablesThrows

SpecFilter == InitFilter /\ [][NextFilter]_vars

\* an entry names the table, bare or qualified with the compared schema
Selected(name) ==
  \E i \in 1..Len(filterEntries) :
    \/ filterEntries[i] = name
    \/ filterEntries[i] = filterSchema \o <<".">> \o name

ComparedNames ==
  Range(filterResult.commonTables) \cup Range(filterResult.onlyInSource)
    \cup Range(filterResult.onlyInTarget)

\* C26: with a non-empty allow-list, every table of the comparison
\* (commonTables, onlyInSource, onlyInTarget) is named by an entry that is
\* unqualified or qualified with the compared schema; a list of entries that
\* are all qualified with another schema compares no table.
C26_OnlyListedTables ==
  (filterPc = "done" /\ filterEntries # <<>>) =>
    \A name \in ComparedNames : Selected(name)

\* the only entry names another schema, and both tables of the databases
\* were compared
C26_OtherSchemaListComparesAll ==
  /\ filterPc = "done"
  /\ filterOp = "compareData"
  /\ filterSchema = <<"p", "u", "b", "l", "i", "c">>
  /\ filterEntries = <<<<"s", "a", "l", "e", "s", ".", "o", "r", "d", "e", "r", "s">>>>
  /\ filterResult.commonTables = <<<<"l", "o", "g", "s">>, <<"u", "s", "e", "r", "s">>>>

\* two dumps compared by compareDatabases with the list users: logs is listed
C26_DumpNotFiltered ==
  /\ filterPc = "done"
  /\ filterOp = "compareDatabases"
  /\ filterKinds = [cloud |-> "dump", edge |-> "dump"]
  /\ filterEntries = <<<<"u", "s", "e", "r", "s">>>>
  /\ <<"l", "o", "g", "s">> \in ComparedNames


\* C27: executeInsertQueries of databaseComparator.js, without dryRun and with
\* the connection made, returns results with success + failed equal to the
\* number of queries and one errors entry per failure, every query having
\* been issued in list order, and has ended the client it opened.
C27_InsertVariantReturnsCounted ==
  (/\ execOp = "executeInsertQueriesPaginated"
   /\ execPc = "done"
   /\ ~execDryRun
   /\ execClients # <<>>
   /\ execClients[Len(execClients)].connected) =>
    /\ execOutcome = "returned"
    /\ execResults.target.success + execResults.target.failed = Len(execQueries)
    /\ Len(execResults.target.errors) = execResults.target.failed
    /\ execIssued = [i \in 1..Len(execQueries) |-> Issue("target", execQueries[i].tableName)]
    /\ \A c \in 1..Len(execClients) : execClients[c].ended

\* both queries went through, and the call still threw with the client open
C27_ThrowsAfterEveryQuery ==
  /\ execOp = "executeInsertQueriesPaginated"
  /\ execPc = "done"
  /\ ~execDryRun
  /\ Len(execQueries) = 2
  /\ execResults.target.success = 2
  /\ execOutcome = "threw"
  /\ ~execClients[1].ended

\* C28: when executeCreateTableQueries (databaseComparator.js:756) returns,
\* every client it opened has been ended, also after a CREATE statement that
\* failed, and on each side success + failed is the number of queries tried.
C28_CreateClosesEveryClient ==
  (execOp = "executeCreateTableQueries" /\ execPc = "done") =>
    /\ \A c \in 1..Len(execClients) : execClients[c].ended
    /\ \A side \in {"cloud", "edge"} :
         execResults[side].success + execResults[side].failed = Len(Pending(side))

\* a CREATE statement failed and its connected client was never ended
C28_ClientLeftOpen ==
  /\ execOp = "executeCreateTableQueries"
  /\ execPc = "done"
  /\ execOutcome = "returned"
  /\ \E c \in 1..Len(execClients) : execClients[c].connected /\ ~execClients[c].ended
  /\ \A side \in {"cloud", "edge"} :
       execResults[side].success + execResults[side].failed = Len(Pending(side))

\* C29: for the key columns of a table, two of its rows get the same
\* record key only if their values are equal in every key column, so rows
\* that differ in a key column are reconciled as different rows.
C29_RecordKeyInjective ==
  pc = "reconcile" =>
    \A r, s \in Range(cloudRows) \cup Range(edgeRows) :
      createRecordKey(r, pkColumns) = createRecordKey(s, pkColumns) =>
        \A i \in 1..Len(pkColumns) : Get(r, pkColumns[i]) = Get(s, pkColumns[i])

\* the first rows of the two sides differ in both key columns, and the
\* table was reconciled without a difference
C29_DifferentRowsMerged ==
  /\ pc = "loop"
  /\ pkColumns = <<"org", "code">>
  /\ Len(cloudRows) = 2 /\ Len(edgeRows) = 2
  /\ Get(cloudRows[1], "org") # Get(edgeRows[1], "org")
  /\ Get(cloudRows[1], "code") # Get(edgeRows[1], "code")
  /\ tableResults # <<>>
  /\ tableResults[Len(tableResults)].totalCloudRecords = 2
  /\ ~tableResults[Len(tableResults)].hasDifferences


(***************************************************************************)
(* createClient of databaseComparator.js: one connection attempt with the  *)
(* SSL setting the URL asks for, and one attempt without SSL after it.     *)
(***************************************************************************)
DefaultTimeoutMs      == 120000
DefaultQueryTimeoutMs == 300000

\* options.timeout || 120000, options.queryTimeout || 300000
baseConfig(url, opts) ==
  LET timeoutMs      == IF opts.timeout # 0 THEN opts.timeout ELSE DefaultTimeoutMs
      queryTimeoutMs == IF opts.queryTimeout # 0 THEN opts.queryTimeout
                        ELSE DefaultQueryTimeoutMs
  IN [connectionString |-> url,
      connectionTimeoutMillis |-> timeoutMs,
      query_timeout |-> queryTimeoutMs,
      statement_timeout |-> queryTimeoutMs,
      idle_in_transaction_session_timeout |-> timeoutMs]

\* config.ssl of the first attempt
FirstSsl(url) ==
  IF includes(url, <<"s", "s", "l", "m", "o", "d", "e", "=", "r", "e", "q", "u", "i", "r", "e">>) THEN "{rejectUnauthorized:false}"
  ELSE IF includes(url, <<"s", "s", "l", "m", "o", "d", "e", "=", "d", "i", "s", "a", "b", "l", "e">>) THEN "false"
  ELSE "{rejectUnauthorized:false}"

\* { ...baseConfig, ssl }
WithSsl(config, ssl) ==
  [connectionString |-> config.connectionString,
   connectionTimeoutMillis |-> config.connectionTimeoutMillis,
   query_timeout |-> config.query_timeout,
   statement_timeout |-> config.statement_timeout,
   idle_in_transaction_session_timeout |-> config.idle_in_transaction_session_timeout,
   ssl |-> ssl]

\* the fallback is tried for every URL that does not disable SSL
TriesWithoutSslUnlessDisabled(url) == ~includes(url, <<"s", "s", "l", "m", "o", "d", "e", "=", "d", "i", "s", "a", "b", "l", "e">>)

\* !url.includes('sslmode=require') && !url.includes('sslmode=disable')
TriesWithoutSsl(url) ==
  ~includes(url, <<"s", "s", "l", "m", "o", "d", "e", "=", "r", "e", "q", "u", "i", "r", "e">>) /\ ~includes(url, <<"s", "s", "l", "m", "o", "d", "e", "=", "d", "i", "s", "a", "b", "l", "e">>)

ConnClient(config) == [config |-> config, connected |-> FALSE, ended |-> FALSE]

\* the configuration is built and the first Client is created
CreateClient ==
  /\ connPc = "ready"
  /\ connClients' =
       <<ConnClient(WithSsl(baseConfig(connUrl, connOptions), FirstSsl(connUrl)))>>
  /\ connPc' = "first"
  /\ UNCHANGED <<connRest, connUrl, connOptions, connReturned, connOutcome>>

\* await client.connect() succeeds: the client is returned
FirstConnects ==
  /\ connPc = "first"
  /\ connClients' = [connClients EXCEPT ![1].connected = TRUE]
  /\ connReturned' = 1
  /\ connOutcome' = "returned"
  /\ connPc' = "done"
  /\ UNCHANGED <<connRest, connUrl, connOptions>>

\* the first attempt fails: the client is ended, then either the second
\* Client is created or the error is thrown
FirstFails ==
  /\ connPc = "first"
  /\ IF TriesWithoutSsl(connUrl)
     THEN /\ connClients' =
               <<[connClients[1] EXCEPT !.ended = TRUE],
                 ConnClient(WithSsl(baseConfig(connUrl, connOptions), "false"))>>
          /\ connPc' = "fallback"
          /\ UNCHANGED connOutcome
     ELSE /\ connClients' = [connClients EXCEPT ![1].ended = TRUE]
          /\ connPc' = "done"
          /\ connOutcome' = "threw"
  /\ UNCHANGED <<connRest, connUrl, connOptions, connReturned>>

\* the attempt without SSL succeeds
FallbackConnects ==
  /\ connPc = "fallback"
  /\ connClients' = [connClients EXCEPT ![2].connected = TRUE]
  /\ connReturned' = 2
  /\ connOutcome' = "returned"
  /\ connPc' = "done"
  /\ UNCHANGED <<connRest, connUrl, connOptions>>

\* the attempt without SSL fails too: the client is ended, error2 is thrown
FallbackFails ==
  /\ connPc = "fallback"
  /\ connClients' = [connClients EXCEPT ![2].ended = TRUE]
  /\ connOutcome' = "threw"
  /\ connPc' = "done"
  /\ UNCHANGED <<connRest, connUrl, connOptions, connReturned>>

ConnHosts == {<<"p", "g", ":", "/", "/", "a", "/", "d">>, <<"p", "g", ":", "/", "/", "b", "/", "d">>}

ConnParams ==
  {<<>>, <<"?", "s", "s", "l", "m", "o", "d", "e", "=", "r", "e", "q", "u", "i", "r", "e">>, <<"?", "s", "s", "l", "m", "o", "d", "e", "=", "d", "i", "s", "a", "b", "l", "e">>, <<"?", "s", "s", "l", "m", "o", "d", "e", "=", "p", "r", "e", "f", "e", "r">>,
   <<"?", "s", "s", "l", "m", "o", "d", "e", "=", "d", "i", "s", "a", "b", "l", "e", "&", "s", "s", "l", "m", "o", "d", "e", "=", "r", "e", "q", "u", "i", "r", "e">>, <<"?", "s", "s", "l", "m", "o", "d", "e", "=", "v", "e", "r", "i", "f", "y", "-", "f", "u", "l", "l">>}

InitClient ==
  /\ SchemaUnused
  /\ DataIdle
  /\ ExecIdle
  /\ ParseIdle
  /\ SqlIdle
  /\ FilterIdle
  /\ connUrl \in {h \o q : h \in ConnHosts, q \in ConnParams}
  /\ connOptions \in [timeout : {0, 5000}, queryTimeout : {0, 60000}]
  /\ connClients = <<>>
  /\ connReturned = 0
  /\ connOutcome = "none"
  /\ connPc = "ready"

NextClient ==
  \/ CreateClient
  \/ FirstConnects
  \/ FirstFails
  \/ FallbackConnects
  \/ FallbackFails

SpecClient == InitClient /\ [][NextClient]_vars

\* C30: createClient creates no client without SSL for a URL that contains
\* sslmode=require, creates the second (non-SSL) client only for a URL that
\* contains neither sslmode=require nor sslmode=disable, and has ended every
\* client it created when it throws; the client it returns is connected.
C30_FallbackOnlyWhenAllowed ==
  /\ includes(connUrl, <<"s", "s", "l", "m", "o", "d", "e", "=", "r", "e", "q", "u", "i", "r", "e">>) =>
       \A c \in 1..Len(connClients) : connClients[c].config.ssl # "false"
  /\ Len(connClients) > 1 =>
       /\ ~includes(connUrl, <<"s", "s", "l", "m", "o", "d", "e", "=", "r", "e", "q", "u", "i", "r", "e">>)
       /\ ~includes(connUrl, <<"s", "s", "l", "m", "o", "d", "e", "=", "d", "i", "s", "a", "b", "l", "e">>)
       /\ connClients[2].config.ssl = "false"
  /\ connOutcome = "threw" =>
       \A c \in 1..Len(connClients) : connClients[c].ended
  /\ connOutcome = "returned" =>
       connReturned \in 1..Len(connClients) /\ connClients[connReturned].connected

\* the URL requires SSL, the one attempt failed and createClient threw with
\* that client ended
C30_Witness ==
  /\ includes(connUrl, <<"s", "s", "l", "m", "o", "d", "e", "=", "r", "e", "q", "u", "i", "r", "e">>)
  /\ connOutcome = "threw"
  /\ Len(connClients) = 1
  /\ connClients[1].config.ssl = "{rejectUnauthorized:false}"
  /\ connClients[1].ended
====
